---- MODULE Spec2Model ----
(***************************************************************************)
(* Model of the three code-review entry points of the repository:          *)
(*   review_code        (src/code_review_with_function.py)                 *)
(*   get_code_review    (src/code_review_without_function.py)              *)
(*   analyze_code_auto  (src/multi_function_calling.py)                    *)
(* Each entry point is a coroutine with a single await on the provider     *)
(* call; everything after the await runs as one step.                      *)
(*                                                                         *)
(* A Python str is a sequence of one-character strings.  Python values     *)
(* (None, bool, int, float, str, list, dict) are records of one uniform    *)
(* shape, see PyVal.  json.loads and json.dumps are modelled on the        *)
(* character level.                                                        *)
(***************************************************************************)
EXTENDS Integers, Sequences, FiniteSets, TLC

(***************************************************************************)
(* Characters and text                                                     *)
(***************************************************************************)
DQ == "\""
BS == "\\"
NL == "\n"
TAB == "\t"
CR == "\r"
SP == " "
\* the grave accent U+0060, which a TLA+ string cannot hold: the character is
\* named instead
BQ == "<grave>"

\* str.strip() with no argument and the JSON decoder's WHITESPACE regex
\* both act on these characters (the model's alphabet is ASCII).
Whitespace == {SP, NL, TAB, CR}

Digits == {"0", "1", "2", "3", "4", "5", "6", "7", "8", "9"}

DigitVal(c) ==
    CASE c = "0" -> 0 [] c = "1" -> 1 [] c = "2" -> 2 [] c = "3" -> 3
      [] c = "4" -> 4 [] c = "5" -> 5 [] c = "6" -> 6 [] c = "7" -> 7
      [] c = "8" -> 8 [] c = "9" -> 9

DigitChar(d) ==
    CASE d = 0 -> "0" [] d = 1 -> "1" [] d = 2 -> "2" [] d = 3 -> "3"
      [] d = 4 -> "4" [] d = 5 -> "5" [] d = 6 -> "6" [] d = 7 -> "7"
      [] d = 8 -> "8" [] d = 9 -> "9"

\* s[a:b] for 0 <= a, 0 <= b (Python indices, already made non-negative)
PySliceAbs(s, a, b) ==
    LET lo == IF a > Len(s) THEN Len(s) ELSE a
        hi == IF b > Len(s) THEN Len(s) ELSE b
    IN  IF hi <= lo THEN <<>> ELSE SubSeq(s, lo + 1, hi)

\* s[a:-b] for a >= 0, b > 0: a negative stop counts from the end and is
\* clipped at 0.
PySlice(s, a, b) ==
    PySliceAbs(s, a, IF Len(s) - b < 0 THEN 0 ELSE Len(s) - b)

\* s.startswith(p)
StartsWith(s, p) ==
    /\ Len(s) >= Len(p)
    /\ \A i \in 1..Len(p) : s[i] = p[i]

\* s.strip()
Strip(s) ==
    LET keep == {i \in 1..Len(s) : s[i] \notin Whitespace}
    IN  IF keep = {} THEN <<>>
        ELSE LET lo == CHOOSE i \in keep : \A j \in keep : i <= j
                 hi == CHOOSE i \in keep : \A j \in keep : j <= i
             IN  SubSeq(s, lo, hi)

(***************************************************************************)
(* Python values.  One record shape for all of them, so that any two       *)
(* values can be compared:                                                 *)
(*   t  the type: "None", "bool", "int", "float", "str", "list", "dict"    *)
(*   b  the truth value of a bool                                          *)
(*   n  the value of an int, or the decimal mantissa of a float            *)
(*   e  the decimal exponent of a float (the float is n * 10^e, with n     *)
(*      not divisible by 10: one float has one representation)             *)
(*   s  the characters of a str                                            *)
(*   ks the keys of a dict in insertion order (each a text)                *)
(*   vs the items of a list, or the values of a dict in key order          *)
(* Floats are decimal: exact for the replies of the model, whose numbers   *)
(* have far fewer than 15 significant digits.  NaN, Infinity and the sign  *)
(* of a zero float are not modelled.                                       *)
(***************************************************************************)
PyVal(t, b, n, e, s, ks, vs) ==
    [t |-> t, b |-> b, n |-> n, e |-> e, s |-> s, ks |-> ks, vs |-> vs]

PyNone == PyVal("None", FALSE, 0, 0, <<>>, <<>>, <<>>)
PyBool(b) == PyVal("bool", b, 0, 0, <<>>, <<>>, <<>>)
PyInt(n) == PyVal("int", FALSE, n, 0, <<>>, <<>>, <<>>)
PyStr(s) == PyVal("str", FALSE, 0, 0, s, <<>>, <<>>)
PyList(vs) == PyVal("list", FALSE, 0, 0, <<>>, <<>>, vs)
PyDict(ks, vs) == PyVal("dict", FALSE, 0, 0, <<>>, ks, vs)

RECURSIVE PyFloat(_, _)
PyFloat(n, e) ==
    IF n = 0 THEN PyVal("float", FALSE, 0, 0, <<>>, <<>>, <<>>)
    ELSE IF n % 10 = 0 THEN PyFloat(n \div 10, e + 1)
    ELSE PyVal("float", FALSE, n, e, <<>>, <<>>, <<>>)

\* bool(v): what `if v` and `a and b` test
Truthy(v) ==
    CASE v.t = "None" -> FALSE
      [] v.t = "bool" -> v.b
      [] v.t = "int" -> v.n # 0
      [] v.t = "float" -> v.n # 0
      [] v.t = "str" -> v.s # <<>>
      [] v.t = "list" -> v.vs # <<>>
      [] v.t = "dict" -> v.ks # <<>>

\* k in d
HasKey(d, k) == \E i \in 1..Len(d.ks) : d.ks[i] = k

\* d[k], for a key that is there
Lookup(d, k) == d.vs[CHOOSE i \in 1..Len(d.ks) : d.ks[i] = k]

\* d[k] = v: a new key goes last, a present key keeps its place
DictSet(d, k, v) ==
    IF HasKey(d, k)
    THEN PyDict(d.ks, [i \in 1..Len(d.ks) |-> IF d.ks[i] = k THEN v ELSE d.vs[i]])
    ELSE PyDict(Append(d.ks, k), Append(d.vs, v))

(***************************************************************************)
(* json.loads: the decoder of the standard library, strict mode.           *)
(* Escapes \b, \f and \uXXXX and the constants NaN and Infinity are left   *)
(* out; no reply of the model contains them.                               *)
(* Every parsing operator returns [ok, val, pos]: pos is the index of the  *)
(* first character not consumed (1-based).                                 *)
(***************************************************************************)
Fail(i) == [ok |-> FALSE, val |-> PyNone, pos |-> i]
Ok(v, i) == [ok |-> TRUE, val |-> v, pos |-> i]

At(s, i) == IF i >= 1 /\ i <= Len(s) THEN s[i] ELSE ""

\* the first index from i on whose character is not in the set skip
\* (Len(s) + 1 when there is none): what a regex match of skip* at i ends at
SkipAll(s, i, skip) ==
    CHOOSE j \in i..(Len(s) + 1) :
        /\ At(s, j) \notin skip
        /\ \A k \in i..(j - 1) : s[k] \in skip

\* WHITESPACE.match(s, i).end()
SkipWs(s, i) == SkipAll(s, i, Whitespace)

Unescape(c) ==
    CASE c = "n" -> NL [] c = "t" -> TAB [] c = "r" -> CR [] OTHER -> c

\* the number of backslashes that end right before index j, none of them
\* before index i
BackslashRun(s, i, j) ==
    j - (CHOOSE k \in i..j :
             /\ \A m \in k..(j - 1) : s[m] = BS
             /\ k = i \/ s[k - 1] # BS)

\* the character at j, inside the string that starts at i, is not consumed
\* by a backslash before it
Unescaped(s, i, j) == BackslashRun(s, i, j) % 2 = 0

\* the double quote at q closes the string that starts at i
ClosesString(s, i, q) ==
    /\ s[q] = DQ
    /\ Unescaped(s, i, q)
    /\ \A k \in i..(q - 1) : s[k] # DQ \/ ~Unescaped(s, i, k)

\* the characters s[i..q-1] of a string literal are what strict scanning
\* accepts: no control character, and after a backslash one of the escapes
StringBodyOk(s, i, q) ==
    \A k \in i..(q - 1) :
        /\ s[k] \notin {NL, TAB, CR}
        /\ (s[k] = BS /\ Unescaped(s, i, k)) => s[k + 1] \in {DQ, BS, "/", "n", "r", "t"}

\* the str the literal s[i..q-1] denotes: the backslash of an escape goes,
\* the character after it is translated
StringBody(s, i, q) ==
    LET starts(k) == s[k] = BS /\ Unescaped(s, i, k)
        kept == SelectSeq([k \in 1..(q - i) |-> i + k - 1], LAMBDA k : ~starts(k))
    IN  [m \in 1..Len(kept) |->
            IF kept[m] > i /\ starts(kept[m] - 1) THEN Unescape(s[kept[m]])
            ELSE s[kept[m]]]

\* py_scanstring: i is the index after the opening quote
ScanString(s, i) ==
    LET Closed(q) ==
            IF StringBodyOk(s, i, q) THEN Ok(PyStr(StringBody(s, i, q)), q + 1)
            ELSE Fail(i)
    IN  IF \E q \in i..Len(s) : s[q] = DQ /\ Unescaped(s, i, q)
        THEN Closed(CHOOSE q \in i..Len(s) : ClosesString(s, i, q))
        ELSE Fail(i)

\* the end of the run of digits that starts at i
DigitsEnd(s, i) == SkipAll(s, i, Digits)

\* the number written by the digits s[a..b-1], continuing acc
RECURSIVE DigitsVal(_, _, _, _)
DigitsVal(s, a, b, acc) ==
    IF a >= b THEN acc ELSE DigitsVal(s, a + 1, b, 10 * acc + DigitVal(s[a]))

\* NUMBER_RE: (-?(?:0|[1-9]\d*))(\.\d+)?([eE][-+]?\d+)?
\* the end of the integer part that starts at j
IntEnd(s, j) == IF At(s, j) = "0" THEN j + 1 ELSE DigitsEnd(s, j)

\* the end of the fraction that may start at k
FracEnd(s, k) ==
    IF At(s, k) = "." /\ At(s, k + 1) \in Digits THEN DigitsEnd(s, k + 1) ELSE k

\* the index of the first digit of the exponent that may start at k, or 0
ExpDigits(s, k) ==
    IF At(s, k) \notin {"e", "E"} THEN 0
    ELSE IF At(s, k + 1) \in Digits THEN k + 1
    ELSE IF At(s, k + 1) \in {"+", "-"} /\ At(s, k + 2) \in Digits THEN k + 2
    ELSE 0

\* the end of the exponent that may start at k
ExpEnd(s, k) ==
    IF ExpDigits(s, k) = 0 THEN k ELSE DigitsEnd(s, ExpDigits(s, k))

\* the exponent written in s[k..expEnd-1], 0 when there is none
ExpVal(s, k, expEnd) ==
    IF expEnd = k THEN 0
    ELSE IF At(s, k + 1) = "-" THEN -DigitsVal(s, k + 2, expEnd, 0)
    ELSE DigitsVal(s, ExpDigits(s, k), expEnd, 0)

\* the number whose integer part is s[j..intEnd-1], fraction
\* s[intEnd+1..fracEnd-1] and exponent s[fracEnd..expEnd-1]: an int when it
\* has neither fraction nor exponent, else a float
NumberValue(s, sign, j, intEnd, fracEnd, expEnd) ==
    IF fracEnd = intEnd /\ expEnd = fracEnd
    THEN PyInt(sign * DigitsVal(s, j, intEnd, 0))
    ELSE PyFloat(sign * DigitsVal(s, intEnd + 1, fracEnd, DigitsVal(s, j, intEnd, 0)),
                 ExpVal(s, fracEnd, expEnd)
                 - (IF fracEnd > intEnd THEN fracEnd - intEnd - 1 ELSE 0))

ParseNumber(s, i) ==
    LET WithExp(sign, j, intEnd, fracEnd, expEnd) ==
            Ok(NumberValue(s, sign, j, intEnd, fracEnd, expEnd), expEnd)
        WithFrac(sign, j, intEnd, fracEnd) ==
            WithExp(sign, j, intEnd, fracEnd, ExpEnd(s, fracEnd))
        WithInt(sign, j, intEnd) == WithFrac(sign, j, intEnd, FracEnd(s, intEnd))
        From(sign, j) ==
            IF At(s, j) \notin Digits THEN Fail(i) ELSE WithInt(sign, j, IntEnd(s, j))
    IN  IF At(s, i) = "-" THEN From(-1, i + 1) ELSE From(1, i)

Literal(s, i, word) ==
    /\ i + Len(word) - 1 <= Len(s)
    /\ SubSeq(s, i, i + Len(word) - 1) = word

RECURSIVE ParseValue(_, _)
RECURSIVE ObjMembers(_, _, _)
RECURSIVE ArrItems(_, _, _)

\* JSONObject's loop: i is the index after the opening quote of a key, d
\* the dict of the pairs before it
ObjMembers(s, i, d) ==
    LET NextKey(more, d2) ==
            IF At(s, more) # DQ THEN Fail(more) ELSE ObjMembers(s, more + 1, d2)
        AfterValue(key, val, nxt) ==
            IF ~val.ok THEN Fail(val.pos)
            ELSE IF At(s, nxt) = "}" THEN Ok(DictSet(d, key.val.s, val.val), nxt + 1)
            ELSE IF At(s, nxt) # "," THEN Fail(nxt)
            ELSE NextKey(SkipWs(s, nxt + 1), DictSet(d, key.val.s, val.val))
        Value(key, val) == AfterValue(key, val, SkipWs(s, val.pos))
        AfterKey(key, colon) ==
            IF ~key.ok THEN Fail(i)
            ELSE IF At(s, colon) # ":" THEN Fail(colon)
            ELSE Value(key, ParseValue(s, SkipWs(s, colon + 1)))
        Key(key) == AfterKey(key, SkipWs(s, key.pos))
    IN  Key(ScanString(s, i))

\* JSONArray's loop: i is the index of the next item, acc the items before
ArrItems(s, i, acc) ==
    LET AfterValue(val, nxt) ==
            IF ~val.ok THEN Fail(val.pos)
            ELSE IF At(s, nxt) = "]" THEN Ok(PyList(Append(acc, val.val)), nxt + 1)
            ELSE IF At(s, nxt) # "," THEN Fail(nxt)
            ELSE ArrItems(s, SkipWs(s, nxt + 1), Append(acc, val.val))
        Value(val) == AfterValue(val, SkipWs(s, val.pos))
    IN  Value(ParseValue(s, i))

\* JSONObject and JSONArray up to the first key or item: first is the index
\* of the first character after the bracket that is no whitespace
ParseObject(s, first) ==
    IF At(s, first) = "}" THEN Ok(PyDict(<<>>, <<>>), first + 1)
    ELSE IF At(s, first) # DQ THEN Fail(first)
    ELSE ObjMembers(s, first + 1, PyDict(<<>>, <<>>))

ParseArray(s, first) ==
    IF At(s, first) = "]" THEN Ok(PyList(<<>>), first + 1)
    ELSE ArrItems(s, first, <<>>)

\* scanner.py_make_scanner._scan_once
ParseValue(s, i) ==
    LET Scan(c) ==
            IF c = "" THEN Fail(i)
            ELSE IF c = DQ THEN ScanString(s, i + 1)
            ELSE IF c = "{" THEN ParseObject(s, SkipWs(s, i + 1))
            ELSE IF c = "[" THEN ParseArray(s, SkipWs(s, i + 1))
            ELSE IF c = "n" /\ Literal(s, i, <<"n", "u", "l", "l">>)
                 THEN Ok(PyNone, i + 4)
            ELSE IF c = "t" /\ Literal(s, i, <<"t", "r", "u", "e">>)
                 THEN Ok(PyBool(TRUE), i + 4)
            ELSE IF c = "f" /\ Literal(s, i, <<"f", "a", "l", "s", "e">>)
                 THEN Ok(PyBool(FALSE), i + 5)
            ELSE ParseNumber(s, i)
    IN  Scan(At(s, i))

\* json.loads(s): JSONDecoder.decode.  ok = FALSE is json.JSONDecodeError.
Loads(s) ==
    LET Decode(r) ==
            IF r.ok /\ SkipWs(s, r.pos) = Len(s) + 1
            THEN [ok |-> TRUE, val |-> r.val]
            ELSE [ok |-> FALSE, val |-> PyNone]
    IN  Decode(ParseValue(s, SkipWs(s, 1)))

(***************************************************************************)
(* json.dumps(v, indent=2): the encoder of the standard library with its   *)
(* defaults (ensure_ascii, separators "," and ": ").  A float is written   *)
(* as float.__repr__ writes it between 1e-4 and 1e16, in positional        *)
(* notation; the floats of the model are in that range.                    *)
(***************************************************************************)
Indent == 2

Repeat(c, n) == [i \in 1..n |-> c]

RECURSIVE NatText(_)
NatText(n) ==
    IF n < 10 THEN <<DigitChar(n)>>
    ELSE Append(NatText(n \div 10), DigitChar(n % 10))

\* int.__repr__
IntText(n) == IF n < 0 THEN <<"-">> \o NatText(-n) ELSE NatText(n)

\* float.__repr__ of n * 10^e
FloatText(n, e) ==
    LET Place(d, decpt) ==
            IF e >= 0 THEN d \o Repeat("0", e) \o <<".", "0">>
            ELSE IF decpt > 0
                 THEN SubSeq(d, 1, decpt) \o <<".">> \o SubSeq(d, decpt + 1, Len(d))
            ELSE <<"0", ".">> \o Repeat("0", -decpt) \o d
        Digs(d) == Place(d, Len(d) + e)
    IN  IF n < 0 THEN <<"-">> \o Digs(NatText(-n)) ELSE Digs(NatText(n))

\* encode_basestring_ascii, without the quotes: every character stands for
\* itself or for its escape
RECURSIVE EscapeRange(_, _, _)
EscapeRange(s, a, b) ==
    IF a > b THEN <<>>
    ELSE IF a = b
         THEN CASE s[a] = DQ -> <<BS, DQ>>
                [] s[a] = BS -> <<BS, BS>>
                [] s[a] = NL -> <<BS, "n">>
                [] s[a] = TAB -> <<BS, "t">>
                [] s[a] = CR -> <<BS, "r">>
                [] OTHER -> <<s[a]>>
    ELSE EscapeRange(s, a, (a + b) \div 2) \o EscapeRange(s, (a + b) \div 2 + 1, b)

EscapeText(s) == EscapeRange(s, 1, Len(s))

Quoted(s) == <<DQ>> \o EscapeText(s) \o <<DQ>>

NewlineIndent(level) == <<NL>> \o Repeat(SP, Indent * level)

RECURSIVE Dumps(_, _)
RECURSIVE DumpItems(_, _, _)
RECURSIVE DumpMembers(_, _, _)

\* the items vs[i..] of a list, each on its own line
DumpItems(vs, i, level) ==
    IF i > Len(vs) THEN <<>>
    ELSE (IF i > 1 THEN <<",">> ELSE <<>>) \o NewlineIndent(level)
         \o Dumps(vs[i], level) \o DumpItems(vs, i + 1, level)

\* the members i.. of a dict, each on its own line
DumpMembers(d, i, level) ==
    IF i > Len(d.ks) THEN <<>>
    ELSE (IF i > 1 THEN <<",">> ELSE <<>>) \o NewlineIndent(level)
         \o Quoted(d.ks[i]) \o <<":", SP>> \o Dumps(d.vs[i], level)
         \o DumpMembers(d, i + 1, level)

\* _make_iterencode: v written at nesting depth level
Dumps(v, level) ==
    CASE v.t = "None" -> <<"n", "u", "l", "l">>
      [] v.t = "bool" -> IF v.b THEN <<"t", "r", "u", "e">> ELSE <<"f", "a", "l", "s", "e">>
      [] v.t = "int" -> IntText(v.n)
      [] v.t = "float" -> FloatText(v.n, v.e)
      [] v.t = "str" -> Quoted(v.s)
      [] v.t = "list" ->
            IF v.vs = <<>> THEN <<"[", "]">>
            ELSE <<"[">> \o DumpItems(v.vs, 1, level + 1) \o NewlineIndent(level) \o <<"]">>
      [] v.t = "dict" ->
            IF v.ks = <<>> THEN <<"{", "}">>
            ELSE <<"{">> \o DumpMembers(v, 1, level + 1) \o NewlineIndent(level) \o <<"}">>

(***************************************************************************)
(* The string literals of the source                                       *)
(***************************************************************************)
\* the field names of the schema code_review_function() declares
codeIssues == <<"c", "o", "d", "e", "I", "s", "s", "u", "e", "s">>
securityVulnerabilityIssues ==
    <<"s", "e", "c", "u", "r", "i", "t", "y", "V", "u", "l", "n", "e", "r",
      "a", "b", "i", "l", "i", "t", "y", "I", "s", "s", "u", "e", "s">>
engineeringPracticesIssues ==
    <<"e", "n", "g", "i", "n", "e", "e", "r", "i", "n", "g", "P", "r", "a",
      "c", "t", "i", "c", "e", "s", "I", "s", "s", "u", "e", "s">>
documentationIssues ==
    <<"d", "o", "c", "u", "m", "e", "n", "t", "a", "t", "i", "o", "n", "I",
      "s", "s", "u", "e", "s">>
reviewScore == <<"r", "e", "v", "i", "e", "w", "S", "c", "o", "r", "e">>
refactoredCode ==
    <<"r", "e", "f", "a", "c", "t", "o", "r", "e", "d", "C", "o", "d", "e">>
issueType == <<"i", "s", "s", "u", "e", "T", "y", "p", "e">>
description == <<"d", "e", "s", "c", "r", "i", "p", "t", "i", "o", "n">>
criticalityLevel ==
    <<"c", "r", "i", "t", "i", "c", "a", "l", "i", "t", "y", "L", "e", "v",
      "e", "l">>
issueDescription ==
    <<"i", "s", "s", "u", "e", "D", "e", "s", "c", "r", "i", "p", "t", "i",
      "o", "n">>

\* keys of the results and of the provider's reply, and the function names
S_response == <<"r", "e", "s", "p", "o", "n", "s", "e">>
S_error == <<"e", "r", "r", "o", "r">>
S_raw_response ==
    <<"r", "a", "w", "_", "r", "e", "s", "p", "o", "n", "s", "e">>
S_function_call ==
    <<"f", "u", "n", "c", "t", "i", "o", "n", "_", "c", "a", "l", "l">>
S_name == <<"n", "a", "m", "e">>
S_arguments == <<"a", "r", "g", "u", "m", "e", "n", "t", "s">>
S_args == <<"a", "r", "g", "s">>
S_code_review == <<"c", "o", "d", "e", "_", "r", "e", "v", "i", "e", "w">>
S_code_explanation ==
    <<"c", "o", "d", "e", "_", "e", "x", "p", "l", "a", "n", "a", "t", "i",
      "o", "n">>
S_function_called ==
    <<"f", "u", "n", "c", "t", "i", "o", "n", "_", "c", "a", "l", "l", "e",
      "d">>
S_parsing_required ==
    <<"p", "a", "r", "s", "i", "n", "g", "_", "r", "e", "q", "u", "i", "r",
      "e", "d">>
S_automatic_intent_detection ==
    <<"a", "u", "t", "o", "m", "a", "t", "i", "c", "_", "i", "n", "t", "e",
      "n", "t", "_", "d", "e", "t", "e", "c", "t", "i", "o", "n">>
S_parsing_failed ==
    <<"p", "a", "r", "s", "i", "n", "g", "_", "f", "a", "i", "l", "e", "d">>
S_review == <<"r", "e", "v", "i", "e", "w">>
S_explanation == <<"e", "x", "p", "l", "a", "n", "a", "t", "i", "o", "n">>
S_both == <<"b", "o", "t", "h">>

\* the messages
S_NoValidReview ==
    <<"N", "o", " ", "v", "a", "l", "i", "d", " ", "r", "e", "v", "i", "e",
      "w", " ", "r", "e", "s", "u", "l", "t", " ", "f", "o", "u", "n", "d">>
S_ErrorInCodeReview ==
    <<"E", "r", "r", "o", "r", " ", "i", "n", " ", "c", "o", "d", "e", " ",
      "r", "e", "v", "i", "e", "w", ":", " ">>
S_ErrorDecoding ==
    <<"E", "r", "r", "o", "r", " ", "d", "e", "c", "o", "d", "i", "n", "g",
      " ", "J", "S", "O", "N", " ", "r", "e", "s", "p", "o", "n", "s", "e">>
S_InvalidFormat ==
    <<"I", "n", "v", "a", "l", "i", "d", " ", "r", "e", "s", "p", "o", "n",
      "s", "e", " ", "f", "o", "r", "m", "a", "t">>
S_ErrorGenerating ==
    <<"E", "r", "r", "o", "r", " ", "g", "e", "n", "e", "r", "a", "t", "i",
      "n", "g", " ", "r", "e", "v", "i", "e", "w", ":", " ">>
S_NoValidAnalysis ==
    <<"N", "o", " ", "v", "a", "l", "i", "d", " ", "a", "n", "a", "l", "y",
      "s", "i", "s", " ", "r", "e", "s", "u", "l", "t", " ", "f", "o", "u",
      "n", "d">>
S_ErrorInAnalysis ==
    <<"E", "r", "r", "o", "r", " ", "i", "n", " ", "c", "o", "d", "e", " ",
      "a", "n", "a", "l", "y", "s", "i", "s", ":", " ">>

\* str(None), and str(response) of a reply object, which stands for its repr
S_None == <<"N", "o", "n", "e">>
S_ReprOfResponse == <<"<", "r", "e", "s", "p", "o", "n", "s", "e", ">">>

\* str(e): the message of an exception is modelled by the exception's type
E_JSONDecodeError ==
    <<"J", "S", "O", "N", "D", "e", "c", "o", "d", "e", "E", "r", "r", "o",
      "r">>
E_KeyError == <<"K", "e", "y", "E", "r", "r", "o", "r">>
E_AttributeError ==
    <<"A", "t", "t", "r", "i", "b", "u", "t", "e", "E", "r", "r", "o", "r">>
E_TypeError == <<"T", "y", "p", "e", "E", "r", "r", "o", "r">>

\* the fence markers get_code_review looks for
FenceJson == <<BQ, BQ, BQ, "j", "s", "o", "n">>
Fence == <<BQ, BQ, BQ>>

(***************************************************************************)
(* The prompts: what each entry point sends to the provider                *)
(***************************************************************************)
\* create_code_review_prompt, lines 128-133: the text before {code}
ReviewPromptHead ==
    <<"Y", "o", "u", " ", "a", "r", "e", " ", "a", "n", " ", "e", "x", "p",
      "e", "r", "t", " ", "c", "o", "d", "e", " ", "r", "e", "v", "i", "e",
      "w", "e", "r", ".", NL, "A", "n", "a", "l", "y", "z", "e", " ", "t",
      "h", "e", " ", "f", "o", "l", "l", "o", "w", "i", "n", "g", " ", "c",
      "o", "d", "e", " ", "a", "n", "d", " ", "r", "e", "s", "p", "o", "n",
      "d", " ", "u", "s", "i", "n", "g", " ", "t", "h", "e", " ", "f", "u",
      "n", "c", "t", "i", "o", "n", " ", "'", "c", "o", "d", "e", "_", "r",
      "e", "v", "i", "e", "w", "_", "f", "u", "n", "c", "t", "i", "o", "n",
      "'", ".", NL, "O", "n", "l", "y", " ", "u", "s", "e", " ", "f", "u",
      "n", "c", "t", "i", "o", "n", " ", "c", "a", "l", "l", "i", "n", "g",
      " ", "t", "o", " ", "r", "e", "t", "u", "r", "n", " ", "y", "o", "u",
      "r", " ", "r", "e", "s", "u", "l", "t", ".", " ", "D", "o", " ", "n",
      "o", "t", " ", "i", "n", "c", "l", "u", "d", "e", " ", "p", "l", "a",
      "i", "n", " ", "t", "e", "x", "t", ".", NL, "C", "o", "d", "e", " ",
      "t", "o", " ", "r", "e", "v", "i", "e", "w", ":", NL, NL>>
\* get_code_review, line 25: the text before {code}
FreeTextPromptHead ==
    <<"A", "c", "t", " ", "a", "s", " ", "a", "n", " ", "e", "x", "p", "e",
      "r", "t", " ", "c", "o", "d", "e", " ", "r", "e", "v", "i", "e", "w",
      "e", "r", ".", " ", "A", "n", "a", "l", "y", "z", "e", " ", "t", "h",
      "e", " ", "f", "o", "l", "l", "o", "w", "i", "n", "g", " ", "c", "o",
      "d", "e", ":", NL, NL>>
\* get_code_review, lines 25-51: the text after {code}
FreeTextPromptTail ==
    <<NL, NL, "E", "v", "a", "l", "u", "a", "t", "e", " ", "t", "h", "e",
      " ", "c", "o", "d", "e", " ", "b", "a", "s", "e", "d", " ", "o", "n",
      " ", "t", "h", "e", " ", "f", "o", "l", "l", "o", "w", "i", "n", "g",
      " ", "p", "a", "r", "a", "m", "e", "t", "e", "r", "s", " ", "i", "n",
      " ", "d", "e", "t", "a", "i", "l", ":", NL, "1", ".", " ", "C", "o",
      "d", "e", " ", "I", "s", "s", "u", "e", "s", ":", " ", "I", "d", "e",
      "n", "t", "i", "f", "y", " ", "l", "o", "g", "i", "c", "a", "l", " ",
      "e", "r", "r", "o", "r", "s", ",", " ", "t", "y", "p", "e", " ", "e",
      "r", "r", "o", "r", "s", ",", " ", "r", "u", "n", "t", "i", "m", "e",
      " ", "e", "r", "r", "o", "r", "s", ",", " ", "a", "n", "d", " ", "s",
      "y", "n", "t", "a", "x", " ", "e", "r", "r", "o", "r", "s", ".", " ",
      "E", "x", "p", "l", "a", "i", "n", " ", "e", "a", "c", "h", " ", "i",
      "s", "s", "u", "e", " ", "a", "n", "d", " ", "a", "s", "s", "i", "g",
      "n", " ", "a", " ", "c", "r", "i", "t", "i", "c", "a", "l", "i", "t",
      "y", " ", "l", "e", "v", "e", "l", " ", "f", "r", "o", "m", " ", "0",
      " ", "(", "l", "o", "w", ")", " ", "t", "o", " ", "5", " ", "(", "h",
      "i", "g", "h", ")", ".", NL, "2", ".", " ", "S", "e", "c", "u", "r",
      "i", "t", "y", " ", "V", "u", "l", "n", "e", "r", "a", "b", "i", "l",
      "i", "t", "i", "e", "s", ":", " ", "I", "d", "e", "n", "t", "i", "f",
      "y", " ", "O", "W", "A", "S", "P", " ", "T", "o", "p", " ", "1", "0",
      " ", "i", "s", "s", "u", "e", "s", " ", "l", "i", "k", "e", " ", "i",
      "n", "j", "e", "c", "t", "i", "o", "n", ",", " ", "b", "r", "o", "k",
      "e", "n", " ", "a", "c", "c", "e", "s", "s", " ", "c", "o", "n", "t",
      "r", "o", "l", ",", " ", "h", "a", "r", "d", "c", "o", "d", "e", "d",
      " ", "c", "r", "e", "d", "e", "n", "t", "i", "a", "l", "s", ",", " ",
      "m", "i", "s", "s", "i", "n", "g", " ", "i", "n", "p", "u", "t", " ",
      "v", "a", "l", "i", "d", "a", "t", "i", "o", "n", ",", " ", "i", "n",
      "s", "e", "c", "u", "r", "e", " ", "d", "e", "s", "e", "r", "i", "a",
      "l", "i", "z", "a", "t", "i", "o", "n", ",", " ", "a", "n", "d", " ",
      "o", "t", "h", "e", "r", " ", "v", "u", "l", "n", "e", "r", "a", "b",
      "i", "l", "i", "t", "i", "e", "s", ".", " ", "I", "n", "c", "l", "u",
      "d", "e", " ", "a", " ", "d", "e", "s", "c", "r", "i", "p", "t", "i",
      "o", "n", " ", "a", "n", "d", " ", "c", "r", "i", "t", "i", "c", "a",
      "l", "i", "t", "y", " ", "l", "e", "v", "e", "l", " ", "f", "o", "r",
      " ", "e", "a", "c", "h", ".", NL, "3", ".", " ", "E", "n", "g", "i",
      "n", "e", "e", "r", "i", "n", "g", " ", "P", "r", "a", "c", "t", "i",
      "c", "e", "s", ":", " ", "E", "v", "a", "l", "u", "a", "t", "e", " ",
      "a", "d", "h", "e", "r", "e", "n", "c", "e", " ", "t", "o", " ", "s",
      "o", "f", "t", "w", "a", "r", "e", " ", "e", "n", "g", "i", "n", "e",
      "e", "r", "i", "n", "g", " ", "b", "e", "s", "t", " ", "p", "r", "a",
      "c", "t", "i", "c", "e", "s", " ", "i", "n", "c", "l", "u", "d", "i",
      "n", "g", " ", "p", "r", "o", "p", "e", "r", " ", "n", "a", "m", "i",
      "n", "g", " ", "c", "o", "n", "v", "e", "n", "t", "i", "o", "n", "s",
      ",", " ", "m", "o", "d", "u", "l", "a", "r", "i", "t", "y", ",", " ",
      "s", "e", "p", "a", "r", "a", "t", "i", "o", "n", " ", "o", "f", " ",
      "c", "o", "n", "c", "e", "r", "n", "s", ",", " ", "d", "e", "s", "i",
      "g", "n", " ", "p", "a", "t", "t", "e", "r", "n", " ", "u", "s", "a",
      "g", "e", ",", " ", "a", "n", "d", " ", "e", "r", "r", "o", "r", " ",
      "h", "a", "n", "d", "l", "i", "n", "g", ".", " ", "I", "n", "c", "l",
      "u", "d", "e", " ", "d", "e", "t", "a", "i", "l", "e", "d", " ", "d",
      "e", "s", "c", "r", "i", "p", "t", "i", "o", "n", "s", " ", "w", "i",
      "t", "h", " ", "c", "o", "d", "e", " ", "c", "o", "n", "t", "e", "x",
      "t", " ", "a", "n", "d", " ", "c", "r", "i", "t", "i", "c", "a", "l",
      "i", "t", "y", " ", "l", "e", "v", "e", "l", ".", NL, "4", ".", " ",
      "D", "o", "c", "u", "m", "e", "n", "t", "a", "t", "i", "o", "n", " ",
      "I", "s", "s", "u", "e", "s", ":", " ", "R", "e", "p", "o", "r", "t",
      " ", "m", "i", "s", "s", "i", "n", "g", " ", "o", "r", " ", "u", "n",
      "c", "l", "e", "a", "r", " ", "d", "o", "c", "u", "m", "e", "n", "t",
      "a", "t", "i", "o", "n", ",", " ", "s", "u", "c", "h", " ", "a", "s",
      " ", "a", "b", "s", "e", "n", "t", " ", "c", "l", "a", "s", "s", "/",
      "f", "u", "n", "c", "t", "i", "o", "n", " ", "d", "o", "c", "s", "t",
      "r", "i", "n", "g", "s", ",", " ", "p", "o", "o", "r", " ", "i", "n",
      "l", "i", "n", "e", " ", "c", "o", "m", "m", "e", "n", "t", "s", ",",
      " ", "o", "r", " ", "m", "i", "s", "s", "i", "n", "g", " ", "u", "s",
      "a", "g", "e", " ", "i", "n", "s", "t", "r", "u", "c", "t", "i", "o",
      "n", "s", ".", NL, "5", ".", " ", "R", "e", "v", "i", "e", "w", " ",
      "S", "c", "o", "r", "e", ":", " ", "P", "r", "o", "v", "i", "d", "e",
      " ", "a", "n", " ", "o", "v", "e", "r", "a", "l", "l", " ", "c", "o",
      "d", "e", " ", "r", "e", "v", "i", "e", "w", " ", "s", "c", "o", "r",
      "e", " ", "(", "0", "-", "1", "0", "0", ")", " ", "i", "n", " ", "p",
      "e", "r", "c", "e", "n", "t", "a", "g", "e", " ", "r", "e", "p", "r",
      "e", "s", "e", "n", "t", "i", "n", "g", " ", "t", "h", "e", " ", "c",
      "o", "d", "e", "'", "s", " ", "q", "u", "a", "l", "i", "t", "y", ".",
      NL, "6", ".", " ", "R", "e", "f", "a", "c", "t", "o", "r", "e", "d",
      " ", "C", "o", "d", "e", ":", " ", "I", "f", " ", "i", "s", "s", "u",
      "e", "s", " ", "a", "r", "e", " ", "f", "o", "u", "n", "d", ",", " ",
      "r", "e", "t", "u", "r", "n", " ", "t", "h", "e", " ", "i", "m", "p",
      "r", "o", "v", "e", "d", " ", "v", "e", "r", "s", "i", "o", "n", " ",
      "o", "f", " ", "t", "h", "e", " ", "c", "o", "d", "e", ".", " ", "O",
      "n", "l", "y", " ", "r", "e", "t", "u", "r", "n", " ", "c", "o", "d",
      "e", " ", "(", "n", "o", " ", "m", "a", "r", "k", "d", "o", "w", "n",
      " ", "o", "r", " ", "e", "x", "p", "l", "a", "n", "a", "t", "i", "o",
      "n", ")", ".", NL, "F", "o", "r", " ", "e", "a", "c", "h", " ", "i",
      "s", "s", "u", "e", ",", " ", "p", "r", "o", "v", "i", "d", "e", " ",
      "a", " ", "d", "e", "s", "c", "r", "i", "p", "t", "i", "o", "n", " ",
      "a", "n", "d", " ", "c", "r", "i", "t", "i", "c", "a", "l", "i", "t",
      "y", " ", "l", "e", "v", "e", "l", " ", "(", "1", "-", "5", ")", ".",
      NL, "R", "e", "t", "u", "r", "n", " ", "t", "h", "e", " ", "r", "e",
      "s", "u", "l", "t", " ", "i", "n", " ", "t", "h", "i", "s", " ", "J",
      "S", "O", "N", " ", "f", "o", "r", "m", "a", "t", ":", NL, "{", NL,
      " ", " ", DQ, "c", "o", "d", "e", "I", "s", "s", "u", "e", "s", DQ,
      ":", " ", "[", NL, " ", " ", " ", " ", "{", DQ, "i", "s", "s", "u",
      "e", "T", "y", "p", "e", DQ, ":", " ", DQ, "L", "o", "g", "i", "c",
      "a", "l", " ", "e", "r", "r", "o", "r", DQ, ",", " ", DQ, "d", "e",
      "s", "c", "r", "i", "p", "t", "i", "o", "n", DQ, ":", " ", DQ, "E",
      "x", "p", "l", "a", "i", "n", " ", "t", "h", "e", " ", "i", "s", "s",
      "u", "e", " ", "h", "e", "r", "e", DQ, ",", " ", DQ, "c", "r", "i",
      "t", "i", "c", "a", "l", "i", "t", "y", "L", "e", "v", "e", "l", DQ,
      ":", " ", "3", "}", NL, " ", " ", "]", ",", NL, " ", " ", DQ, "s", "e",
      "c", "u", "r", "i", "t", "y", "V", "u", "l", "n", "e", "r", "a", "b",
      "i", "l", "i", "t", "y", "I", "s", "s", "u", "e", "s", DQ, ":", " ",
      "[", NL, " ", " ", " ", " ", "{", DQ, "i", "s", "s", "u", "e", "T",
      "y", "p", "e", DQ, ":", " ", DQ, "H", "a", "r", "d", "c", "o", "d",
      "e", "d", " ", "c", "r", "e", "d", "e", "n", "t", "i", "a", "l", "s",
      DQ, ",", " ", DQ, "d", "e", "s", "c", "r", "i", "p", "t", "i", "o",
      "n", DQ, ":", " ", DQ, "S", "e", "n", "s", "i", "t", "i", "v", "e",
      " ", "i", "n", "f", "o", " ", "h", "a", "r", "d", "c", "o", "d", "e",
      "d", DQ, ",", " ", DQ, "c", "r", "i", "t", "i", "c", "a", "l", "i",
      "t", "y", "L", "e", "v", "e", "l", DQ, ":", " ", "4", "}", NL, " ",
      " ", "]", ",", NL, " ", " ", DQ, "e", "n", "g", "i", "n", "e", "e",
      "r", "i", "n", "g", "P", "r", "a", "c", "t", "i", "c", "e", "s", "I",
      "s", "s", "u", "e", "s", DQ, ":", " ", "[", NL, " ", " ", " ", " ",
      "{", DQ, "i", "s", "s", "u", "e", "T", "y", "p", "e", DQ, ":", " ", DQ,
      "P", "o", "o", "r", " ", "n", "a", "m", "i", "n", "g", " ", "c", "o",
      "n", "v", "e", "n", "t", "i", "o", "n", "s", DQ, ",", " ", DQ, "d",
      "e", "s", "c", "r", "i", "p", "t", "i", "o", "n", DQ, ":", " ", DQ,
      "V", "a", "r", "i", "a", "b", "l", "e", " ", "n", "a", "m", "e", "s",
      " ", "a", "r", "e", " ", "u", "n", "c", "l", "e", "a", "r", DQ, ",",
      " ", DQ, "c", "r", "i", "t", "i", "c", "a", "l", "i", "t", "y", "L",
      "e", "v", "e", "l", DQ, ":", " ", "2", "}", NL, " ", " ", "]", ",", NL,
      " ", " ", DQ, "d", "o", "c", "u", "m", "e", "n", "t", "a", "t", "i",
      "o", "n", "I", "s", "s", "u", "e", "s", DQ, ":", " ", "[", NL, " ",
      " ", " ", " ", "{", DQ, "i", "s", "s", "u", "e", "D", "e", "s", "c",
      "r", "i", "p", "t", "i", "o", "n", DQ, ":", " ", DQ, "M", "i", "s",
      "s", "i", "n", "g", " ", "d", "o", "c", "s", "t", "r", "i", "n", "g",
      "s", " ", "f", "o", "r", " ", "p", "u", "b", "l", "i", "c", " ", "f",
      "u", "n", "c", "t", "i", "o", "n", "s", DQ, "}", NL, " ", " ", "]",
      ",", NL, " ", " ", DQ, "r", "e", "v", "i", "e", "w", "S", "c", "o",
      "r", "e", DQ, ":", " ", "7", "2", ".", "5", ",", NL, " ", " ", DQ, "r",
      "e", "f", "a", "c", "t", "o", "r", "e", "d", "C", "o", "d", "e", DQ,
      ":", " ", DQ, "O", "n", "l", "y", " ", "t", "h", "e", " ", "r", "e",
      "f", "a", "c", "t", "o", "r", "e", "d", " ", "c", "o", "d", "e", " ",
      "h", "e", "r", "e", ".", " ", "N", "o", " ", "m", "a", "r", "k", "d",
      "o", "w", "n", ",", " ", "n", "o", " ", "e", "x", "p", "l", "a", "n",
      "a", "t", "i", "o", "n", ".", DQ, NL, "}", NL, "I", "f", " ", "n", "o",
      " ", "i", "s", "s", "u", "e", "s", " ", "a", "r", "e", " ", "f", "o",
      "u", "n", "d", " ", "i", "n", " ", "a", " ", "s", "e", "c", "t", "i",
      "o", "n", ",", " ", "r", "e", "t", "u", "r", "n", " ", "a", "n", " ",
      "e", "m", "p", "t", "y", " ", "a", "r", "r", "a", "y", " ", "f", "o",
      "r", " ", "t", "h", "a", "t", " ", "p", "a", "r", "a", "m", "e", "t",
      "e", "r", ".">>
\* analyze_code_auto, lines 146-155: the text before {user_instruction}
FullPromptHead ==
    <<"Y", "o", "u", " ", "a", "r", "e", " ", "a", "n", " ", "e", "x", "p",
      "e", "r", "t", " ", "c", "o", "d", "e", " ", "r", "e", "v", "i", "e",
      "w", "e", "r", " ", "a", "n", "d", " ", "p", "r", "o", "g", "r", "a",
      "m", "m", "e", "r", ".", NL, NL, "U", "s", "e", "r", " ", "r", "e",
      "q", "u", "e", "s", "t", ":", " ">>
\* between {user_instruction} and {code}
FullPromptMiddle == <<NL, NL, "C", "o", "d", "e", ":", NL>>
\* after {code}
FullPromptTail ==
    <<NL, NL, "B", "a", "s", "e", "d", " ", "o", "n", " ", "t", "h", "e",
      " ", "u", "s", "e", "r", " ", "r", "e", "q", "u", "e", "s", "t", ",",
      " ", "e", "i", "t", "h", "e", "r", ":", NL, "-", " ", "R", "e", "v",
      "i", "e", "w", " ", "t", "h", "e", " ", "c", "o", "d", "e", " ", "a",
      "n", "d", " ", "r", "e", "t", "u", "r", "n", " ", "i", "s", "s", "u",
      "e", "s", NL, "-", " ", "E", "x", "p", "l", "a", "i", "n", " ", "t",
      "h", "e", " ", "c", "o", "d", "e", " ", "i", "n", " ", "d", "e", "t",
      "a", "i", "l", NL, "-", " ", "O", "r", " ", "d", "o", " ", "b", "o",
      "t", "h", NL, "U", "s", "e", " ", "o", "n", "l", "y", " ", "s", "t",
      "r", "u", "c", "t", "u", "r", "e", "d", " ", "f", "u", "n", "c", "t",
      "i", "o", "n", " ", "c", "a", "l", "l", "i", "n", "g", " ", "t", "o",
      " ", "r", "e", "s", "p", "o", "n", "d", " ", "a", "p", "p", "r", "o",
      "p", "r", "i", "a", "t", "e", "l", "y", ".", " ", "R", "e", "s", "p",
      "o", "n", "s", "e", " ", "m", "u", "s", "t", " ", "f", "o", "l", "l",
      "o", "w", " ", "J", "S", "O", "N", " ", "f", "o", "r", "m", "a", "t",
      " ", "u", "s", "i", "n", "g", " ", "t", "h", "e", " ", "d", "e", "f",
      "i", "n", "e", "d", " ", "f", "u", "n", "c", "t", "i", "o", "n", "s",
      ".">>
S_SystemReviewer ==
    <<"Y", "o", "u", " ", "a", "r", "e", " ", "a", "n", " ", "e", "x", "p",
      "e", "r", "t", " ", "c", "o", "d", "e", " ", "r", "e", "v", "i", "e",
      "w", "e", "r", ".">>
S_SystemReviewerExplainer ==
    <<"Y", "o", "u", " ", "a", "r", "e", " ", "a", "n", " ", "e", "x", "p",
      "e", "r", "t", " ", "c", "o", "d", "e", " ", "r", "e", "v", "i", "e",
      "w", "e", "r", " ", "a", "n", "d", " ", "e", "x", "p", "l", "a", "i",
      "n", "e", "r", ".", " ", "U", "s", "e", " ", "f", "u", "n", "c", "t",
      "i", "o", "n", " ", "c", "a", "l", "l", "i", "n", "g", " ", "b", "a",
      "s", "e", "d", " ", "o", "n", " ", "u", "s", "e", "r", "'", "s", " ",
      "i", "n", "t", "e", "n", "t", ".">>
S_role == <<"r", "o", "l", "e">>
S_content == <<"c", "o", "n", "t", "e", "n", "t">>
S_system == <<"s", "y", "s", "t", "e", "m">>
S_user == <<"u", "s", "e", "r">>

\* src/code_review_with_function.py, lines 127-133
create_code_review_prompt(code) == ReviewPromptHead \o code

\* get_code_review, lines 24-52: the local `prompt`
GetCodeReviewPrompt(code) == FreeTextPromptHead \o code \o FreeTextPromptTail

\* analyze_code_auto, lines 146-155: the local `full_prompt`
FullPrompt(code, user_instruction) ==
    FullPromptHead \o user_instruction \o FullPromptMiddle \o code
        \o FullPromptTail

\* the list `messages`: a system message and the prompt as the user's
Messages(system, prompt) ==
    PyList(<<PyDict(<<S_role, S_content>>, <<PyStr(S_system), PyStr(system)>>),
             PyDict(<<S_role, S_content>>, <<PyStr(S_user), PyStr(prompt)>>)>>)

\* review_code, lines 156-169
ReviewCodeMessages(code) ==
    Messages(S_SystemReviewer, create_code_review_prompt(code))

\* get_code_review, lines 24-66
GetCodeReviewMessages(code) ==
    Messages(S_SystemReviewer, GetCodeReviewPrompt(code))

\* analyze_code_auto, lines 146-163
AnalyzeCodeAutoMessages(code, user_instruction) ==
    Messages(S_SystemReviewerExplainer, FullPrompt(code, user_instruction))

(***************************************************************************)
(* The provider's reply: what `await llm.ainvoke(messages)` produces.      *)
(*   kind              "raise": the call raises exc; "none": it returns    *)
(*                     None; "message": it returns a message object        *)
(*   exc               str(e) of the exception raised                      *)
(*   additional_kwargs the message's additional_kwargs, a dict             *)
(*   tool_calls        the message's tool_calls, a list of dicts           *)
(*   hasContent        hasattr(response, 'content')                        *)
(*   content           response.content: a str, or None                    *)
(***************************************************************************)
Reply(kind, exc, additional_kwargs, tool_calls, hasContent, content) ==
    [kind |-> kind, exc |-> exc, additional_kwargs |-> additional_kwargs,
     tool_calls |-> tool_calls, hasContent |-> hasContent, content |-> content]

NoReply == Reply("unset", <<>>, PyDict(<<>>, <<>>), PyList(<<>>), FALSE, PyNone)

(***************************************************************************)
(* How a block of code ends: it returns val, or raises an exception whose  *)
(* str() is exc.  content is get_code_review's local of that name.         *)
(***************************************************************************)
Return(v) == [kind |-> "return", val |-> v, exc |-> <<>>, content |-> PyNone]
Raise(e) == [kind |-> "raise", val |-> PyNone, exc |-> e, content |-> PyNone]

\* d.get(k)
Get(d, k) == IF HasKey(d, k) THEN Lookup(d, k) ELSE PyNone

\* json.loads(v) of a Python value: a value that is no str is a TypeError
LoadsValue(v) ==
    LET Decoded(r) == [ok |-> r.ok, val |-> r.val, exc |-> E_JSONDecodeError]
    IN  IF v.t # "str" THEN [ok |-> FALSE, val |-> PyNone, exc |-> E_TypeError]
        ELSE Decoded(Loads(v.s))

(***************************************************************************)
(* src/code_review_with_function.py                                        *)
(***************************************************************************)
format_response(response) == PyStr(Dumps(response, 0))

\* NoValidReview as it would be if the error result also carried a null
\* "response"
NoValidReviewWithResponse ==
    Return(format_response(PyDict(<<S_response, S_error>>,
                                  <<PyNone, PyStr(S_NoValidReview)>>)))

\* review_code, lines 184-187
NoValidReview ==
    Return(format_response(PyDict(<<S_error>>, <<PyStr(S_NoValidReview)>>)))

\* ReviewCodeTry as it would be without the json.loads of line 179: the
\* arguments are returned as the str they arrived as
ReviewCodeTryUnparsed(r) ==
    LET Called(function_call) ==
            IF ~Truthy(function_call) THEN NoValidReview
            ELSE IF ~HasKey(function_call, S_name) THEN Raise(E_KeyError)
            ELSE IF Lookup(function_call, S_name) # PyStr(S_code_review)
                 THEN NoValidReview
            ELSE IF ~HasKey(function_call, S_arguments) THEN Raise(E_KeyError)
            ELSE Return(format_response(
                     PyDict(<<S_response>>, <<Lookup(function_call, S_arguments)>>)))
    IN  IF r.kind = "raise" THEN Raise(r.exc)
        ELSE IF r.kind = "none" THEN Raise(E_AttributeError)
        ELSE Called(Get(r.additional_kwargs, S_function_call))

\* review_code, the try block from the await on (lines 172-187)
ReviewCodeTry(r) ==
    LET Parsed(review_result) ==
            IF ~review_result.ok THEN Raise(review_result.exc)
            ELSE Return(format_response(
                     PyDict(<<S_response>>, <<review_result.val>>)))
        Called(function_call) ==
            IF ~Truthy(function_call) THEN NoValidReview
            ELSE IF ~HasKey(function_call, S_name) THEN Raise(E_KeyError)
            ELSE IF Lookup(function_call, S_name) # PyStr(S_code_review)
                 THEN NoValidReview
            ELSE IF ~HasKey(function_call, S_arguments) THEN Raise(E_KeyError)
            ELSE Parsed(LoadsValue(Lookup(function_call, S_arguments)))
    IN  IF r.kind = "raise" THEN Raise(r.exc)
        ELSE IF r.kind = "none" THEN Raise(E_AttributeError)
        ELSE Called(Get(r.additional_kwargs, S_function_call))

\* ReviewCodeExcept as it would be if line 189 read
\* `except json.JSONDecodeError as e`: any other exception leaves review_code
ReviewCodeExceptJsonOnly(t) ==
    IF t.kind = "raise" /\ t.exc = E_JSONDecodeError
    THEN Return(format_response(
             PyDict(<<S_error>>, <<PyStr(S_ErrorInCodeReview \o t.exc)>>)))
    ELSE t

\* review_code, lines 189-193: except Exception as e
ReviewCodeExcept(t) ==
    IF t.kind = "raise"
    THEN Return(format_response(
             PyDict(<<S_error>>, <<PyStr(S_ErrorInCodeReview \o t.exc)>>)))
    ELSE t

\* review_code(code) resumed with the provider's reply r
review_code(r) == ReviewCodeExcept(ReviewCodeTry(r))

(***************************************************************************)
(* src/code_review_without_function.py                                     *)
(***************************************************************************)
\* StripFences as it would be without the elif of lines 81-82: only the
\* language-tagged fence is taken off
StripFencesJsonOnly(raw) ==
    LET Unfence(content) ==
            IF StartsWith(content, FenceJson) THEN PySlice(content, 7, 3)
            ELSE content
    IN  Unfence(Strip(raw))

\* get_code_review, lines 77-82: the local `content` before json.loads
StripFences(raw) ==
    LET Unfence(content) ==
            IF StartsWith(content, FenceJson) THEN PySlice(content, 7, 3)
            ELSE IF StartsWith(content, Fence) THEN PySlice(content, 3, 3)
            ELSE content
    IN  Unfence(Strip(raw))

\* get_code_review, lines 75-95: the inner try with its
\* except json.JSONDecodeError
ParseContent(raw) ==
    LET Parsed(content, review_dict) ==
            IF review_dict.ok
            THEN [Return(PyDict(<<S_response>>, <<review_dict.val>>))
                    EXCEPT !.content = PyStr(content)]
            ELSE [Return(PyDict(<<S_error, S_raw_response>>,
                                <<PyStr(S_ErrorDecoding), PyStr(content)>>))
                    EXCEPT !.content = PyStr(content)]
        Stripped(content) == Parsed(content, Loads(content))
    IN  Stripped(StripFences(raw))

\* get_code_review, the outer try block from the await on (lines 69-101)
GetCodeReviewTry(r) ==
    IF r.kind = "raise" THEN Raise(r.exc)
    ELSE IF r.kind = "none"
         THEN Return(PyDict(<<S_error, S_raw_response>>,
                            <<PyStr(S_InvalidFormat), PyStr(S_None)>>))
    ELSE IF ~r.hasContent
         THEN Return(PyDict(<<S_error, S_raw_response>>,
                            <<PyStr(S_InvalidFormat), PyStr(S_ReprOfResponse)>>))
    ELSE IF r.content.t # "str" THEN Raise(E_AttributeError)
    ELSE ParseContent(r.content.s)

\* get_code_review, lines 103-107: except Exception as e
GetCodeReviewExcept(t) ==
    IF t.kind = "raise"
    THEN Return(PyDict(<<S_error>>, <<PyStr(S_ErrorGenerating \o t.exc)>>))
    ELSE t

\* get_code_review(code) resumed with the provider's reply r
get_code_review(r) == GetCodeReviewExcept(GetCodeReviewTry(r))

(***************************************************************************)
(* src/multi_function_calling.py                                           *)
(***************************************************************************)
\* format_response(response, analysis_type): the second argument is unused
format_analysis(response) == PyStr(Dumps(response, 0))

\* ToolCallLoop as it would be if a result, once set, were kept: the first
\* call of a name wins, not the last
RECURSIVE ToolCallLoopFirst(_, _, _)
ToolCallLoopFirst(tool_calls, i, acc) ==
    LET Body(name, args) ==
            IF name = PyStr(S_code_review) /\ acc[1] = PyNone THEN <<args, acc[2]>>
            ELSE IF name = PyStr(S_code_explanation) /\ acc[2] = PyNone
                 THEN <<acc[1], args>>
            ELSE acc
    IN  IF i > Len(tool_calls) THEN acc
        ELSE ToolCallLoopFirst(tool_calls, i + 1,
                               Body(Get(tool_calls[i], S_name),
                                    Get(tool_calls[i], S_args)))

\* analyze_code_auto, lines 184-190: the loop over response.tool_calls;
\* acc is <<review_result, explanation_result>>
RECURSIVE ToolCallLoop(_, _, _)
ToolCallLoop(tool_calls, i, acc) ==
    LET Body(name, args) ==
            IF name = PyStr(S_code_review) THEN <<args, acc[2]>>
            ELSE IF name = PyStr(S_code_explanation) THEN <<acc[1], args>>
            ELSE acc
    IN  IF i > Len(tool_calls) THEN acc
        ELSE ToolCallLoop(tool_calls, i + 1,
                          Body(Get(tool_calls[i], S_name), Get(tool_calls[i], S_args)))

\* analyze_code_auto, the try block from the await on (lines 166-208)
AnalyzeCodeAutoTry(r) ==
    LET Parsed(function_call, result) ==
            IF ~result.ok THEN Raise(result.exc)
            ELSE Return(format_analysis(PyDict(
                     <<S_response, S_function_called, S_parsing_required,
                       S_automatic_intent_detection>>,
                     <<result.val, Lookup(function_call, S_name),
                       PyBool(FALSE), PyBool(TRUE)>>)))
        Called(function_call) ==
            IF ~HasKey(function_call, S_name) THEN Raise(E_KeyError)
            ELSE IF ~HasKey(function_call, S_arguments) THEN Raise(E_KeyError)
            ELSE Parsed(function_call,
                        LoadsValue(Lookup(function_call, S_arguments)))
        Dispatch(function_call) ==
            IF Truthy(function_call) THEN Called(function_call)
            ELSE IF Truthy(r.tool_calls)
            THEN Return(format_analysis(PyDict(
                     <<S_response, S_function_called, S_parsing_required,
                       S_automatic_intent_detection>>,
                     <<PyDict(<<S_review, S_explanation>>,
                              ToolCallLoop(r.tool_calls.vs, 1, <<PyNone, PyNone>>)),
                       PyStr(S_both), PyBool(FALSE), PyBool(TRUE)>>)))
            ELSE Return(format_analysis(PyDict(
                     <<S_error, S_automatic_intent_detection, S_parsing_failed>>,
                     <<PyStr(S_NoValidAnalysis), PyBool(TRUE), PyBool(TRUE)>>)))
    IN  IF r.kind = "raise" THEN Raise(r.exc)
        ELSE IF r.kind = "none" THEN Raise(E_AttributeError)
        ELSE Dispatch(Get(r.additional_kwargs, S_function_call))

\* analyze_code_auto, lines 210-216: except Exception as e
AnalyzeCodeAutoExcept(t) ==
    IF t.kind = "raise"
    THEN Return(format_analysis(PyDict(
             <<S_error, S_automatic_intent_detection, S_parsing_failed>>,
             <<PyStr(S_ErrorInAnalysis \o t.exc), PyBool(TRUE), PyBool(TRUE)>>)))
    ELSE t

\* analyze_code_auto(code, user_instruction) resumed with the reply r
analyze_code_auto(r) == AnalyzeCodeAutoExcept(AnalyzeCodeAutoTry(r))

(***************************************************************************)
(* The schema code_review_function() declares                              *)
(* (src/code_review_with_function.py, lines 23-124)                        *)
(***************************************************************************)
\* "required" of the parameters, lines 115-122
Required ==
    <<codeIssues, securityVulnerabilityIssues, engineeringPracticesIssues,
      documentationIssues, reviewScore, refactoredCode>>

\* "required" of an issue record, lines 48, 69, 90
IssueRequired == <<issueType, description, criticalityLevel>>

\* the criticality levels the descriptions of lines 45, 66, 87 allow
MinCriticality == 0
MaxCriticality == 5

\* the reviewScore the description of line 108 allows
MaxScore == 100

IsNumber(v) == v.t \in {"int", "float"}

RECURSIVE Pow10(_)
Pow10(k) == IF k <= 0 THEN 1 ELSE 10 * Pow10(k - 1)

\* 0 <= v <= MaxScore, for a number v
ScoreInRange(v) ==
    /\ v.n >= 0
    /\ IF v.e >= 0 THEN v.n * Pow10(v.e) <= MaxScore
       ELSE v.n <= MaxScore * Pow10(-v.e)

\* an item of codeIssues, securityVulnerabilityIssues or
\* engineeringPracticesIssues, lines 32-49
IsIssueRecord(v) ==
    /\ v.t = "dict"
    /\ \A i \in 1..Len(IssueRequired) : HasKey(v, IssueRequired[i])
    /\ Lookup(v, issueType).t = "str"
    /\ Lookup(v, description).t = "str"
    /\ Lookup(v, criticalityLevel).t = "int"
    /\ Lookup(v, criticalityLevel).n >= MinCriticality
    /\ Lookup(v, criticalityLevel).n <= MaxCriticality

\* an item of documentationIssues, lines 95-104
IsDocumentationIssue(v) ==
    /\ v.t = "dict"
    /\ HasKey(v, issueDescription)
    /\ Lookup(v, issueDescription).t = "str"

IsIssueList(v) ==
    v.t = "list" /\ \A i \in 1..Len(v.vs) : IsIssueRecord(v.vs[i])

IsDocumentationIssueList(v) ==
    v.t = "list" /\ \A i \in 1..Len(v.vs) : IsDocumentationIssue(v.vs[i])

\* the first required field v lacks, <<>> when it has them all
MissingField(v) ==
    LET lacking == {i \in 1..Len(Required) : ~HasKey(v, Required[i])}
    IN  IF lacking = {} THEN <<>>
        ELSE Required[CHOOSE i \in lacking : \A j \in lacking : i <= j]

\* v conforms to the schema
ConformsToSchema(v) ==
    /\ v.t = "dict"
    /\ MissingField(v) = <<>>
    /\ IsIssueList(Lookup(v, codeIssues))
    /\ IsIssueList(Lookup(v, securityVulnerabilityIssues))
    /\ IsIssueList(Lookup(v, engineeringPracticesIssues))
    /\ IsDocumentationIssueList(Lookup(v, documentationIssues))
    /\ IsNumber(Lookup(v, reviewScore))
    /\ ScoreInRange(Lookup(v, reviewScore))
    /\ Lookup(v, refactoredCode).t = "str"

(***************************************************************************)
(* The replies of the provider the model draws from                        *)
(***************************************************************************)
T_bug == <<"b", "u", "g">>
T_offByOne == <<"o", "f", "f", " ", "b", "y", " ", "o", "n", "e">>
T_naming == <<"n", "a", "m", "i", "n", "g">>
T_x == <<"x">>
T_noDocstring ==
    <<"n", "o", " ", "d", "o", "c", "s", "t", "r", "i", "n", "g">>
T_high == <<"h", "i", "g", "h">>
T_xIs1 == <<"x", "=", "1">>
T_defF ==
    <<"d", "e", "f", " ", "f", "(", ")", ":", NL, " ", " ", " ", " ", "r",
      "e", "t", "u", "r", "n", " ", DQ, "a", DQ>>
T_timeout == <<"t", "i", "m", "e", "o", "u", "t">>
T_other == <<"o", "t", "h", "e", "r">>
T_purpose == <<"p", "u", "r", "p", "o", "s", "e">>
T_adds == <<"a", "d", "d", "s">>

Issue(type, desc, level) ==
    PyDict(IssueRequired, <<PyStr(type), PyStr(desc), level>>)

DocumentationIssue(desc) == PyDict(<<issueDescription>>, <<PyStr(desc)>>)

Review(code, security, engineering, documentation, score, refactored) ==
    PyDict(Required, <<PyList(code), PyList(security), PyList(engineering),
                       PyList(documentation), score, PyStr(refactored)>>)

\* Scenario A of the spec: no issues, score 80
ReviewA == Review(<<>>, <<>>, <<>>, <<>>, PyInt(80), T_xIs1)

\* a review with issues of every category, a fractional score and a
\* refactored code with a newline and double quotes; level is the
\* criticalityLevel of its code issue
ReviewB(level) ==
    Review(<<Issue(T_bug, T_offByOne, level)>>, <<>>,
           <<Issue(T_naming, T_x, PyInt(2))>>,
           <<DocumentationIssue(T_noDocstring)>>, PyFloat(725, -1), T_defF)

\* the largest criticalityLevel the replies carry
MaxTriedLevel == 6

TriedLevels ==
    {PyInt(l) : l \in -1..MaxTriedLevel} \cup {PyFloat(25, -1), PyStr(T_high)}

\* d without the key k
RECURSIVE DropKeyFrom(_, _, _)
DropKeyFrom(d, k, i) ==
    IF i > Len(d.ks) THEN PyDict(<<>>, <<>>)
    ELSE IF d.ks[i] = k THEN DropKeyFrom(d, k, i + 1)
    ELSE LET Put(rest) == PyDict(<<d.ks[i]>> \o rest.ks, <<d.vs[i]>> \o rest.vs)
         IN  Put(DropKeyFrom(d, k, i + 1))

DropKey(d, k) == DropKeyFrom(d, k, 1)

ReviewsMissingAField == {DropKey(ReviewA, Required[i]) : i \in 1..Len(Required)}

Reviews ==
    {ReviewA} \cup {ReviewB(l) : l \in TriedLevels} \cup ReviewsMissingAField

\* the provider's own JSON encoder: no whitespace between the tokens
RECURSIVE Compact(_)
RECURSIVE CompactFrom(_, _)
CompactFrom(v, i) ==
    IF i > Len(v.vs) THEN <<>>
    ELSE (IF i > 1 THEN <<",">> ELSE <<>>)
         \o (IF v.t = "dict" THEN Quoted(v.ks[i]) \o <<":">> ELSE <<>>)
         \o Compact(v.vs[i]) \o CompactFrom(v, i + 1)

Compact(v) ==
    CASE v.t = "list" -> <<"[">> \o CompactFrom(v, 1) \o <<"]">>
      [] v.t = "dict" -> <<"{">> \o CompactFrom(v, 1) \o <<"}">>
      [] OTHER -> Dumps(v, 0)

\* prose a model puts around its JSON
ProseBefore == <<"R", "e", "v", "i", "e", "w", ":", " ">>
ProseAfter == <<" ", "D", "o", "n", "e", ".">>
\* Scenario A of the spec, as the spec writes it
ScenarioA ==
    <<"{", DQ, "c", "o", "d", "e", "I", "s", "s", "u", "e", "s", DQ, ":",
      "[", "]", ",", DQ, "s", "e", "c", "u", "r", "i", "t", "y", "V", "u",
      "l", "n", "e", "r", "a", "b", "i", "l", "i", "t", "y", "I", "s", "s",
      "u", "e", "s", DQ, ":", "[", "]", ",", DQ, "e", "n", "g", "i", "n",
      "e", "e", "r", "i", "n", "g", "P", "r", "a", "c", "t", "i", "c", "e",
      "s", "I", "s", "s", "u", "e", "s", DQ, ":", "[", "]", ",", DQ, "d",
      "o", "c", "u", "m", "e", "n", "t", "a", "t", "i", "o", "n", "I", "s",
      "s", "u", "e", "s", DQ, ":", "[", "]", ",", DQ, "r", "e", "v", "i",
      "e", "w", "S", "c", "o", "r", "e", DQ, ":", "8", "0", ",", DQ, "r",
      "e", "f", "a", "c", "t", "o", "r", "e", "d", "C", "o", "d", "e", DQ,
      ":", DQ, "x", "=", "1", DQ, "}">>
\* Scenario C of the spec: prose without any brace
ScenarioC ==
    <<"S", "u", "r", "e", ",", " ", "h", "e", "r", "e", " ", "i", "s", " ",
      "t", "h", "e", " ", "r", "e", "v", "i", "e", "w", ":", " ", "I", " ",
      "f", "o", "u", "n", "d", " ", "n", "o", " ", "J", "S", "O", "N", " ",
      "t", "o", "d", "a", "y", ".">>
\* Scenario A of the spec written with whitespace and an exponent
ScenarioASpaced ==
    <<"{", " ", DQ, "c", "o", "d", "e", "I", "s", "s", "u", "e", "s", DQ,
      ":", " ", "[", "]", ",", NL, " ", " ", DQ, "s", "e", "c", "u", "r",
      "i", "t", "y", "V", "u", "l", "n", "e", "r", "a", "b", "i", "l", "i",
      "t", "y", "I", "s", "s", "u", "e", "s", DQ, ":", " ", "[", " ", "]",
      ",", NL, " ", " ", DQ, "e", "n", "g", "i", "n", "e", "e", "r", "i",
      "n", "g", "P", "r", "a", "c", "t", "i", "c", "e", "s", "I", "s", "s",
      "u", "e", "s", DQ, ":", " ", "[", "]", ",", NL, " ", " ", DQ, "d", "o",
      "c", "u", "m", "e", "n", "t", "a", "t", "i", "o", "n", "I", "s", "s",
      "u", "e", "s", DQ, ":", " ", "[", "]", ",", NL, " ", " ", DQ, "r", "e",
      "v", "i", "e", "w", "S", "c", "o", "r", "e", DQ, ":", " ", "8", ".",
      "0", "E", "1", ",", NL, " ", " ", DQ, "r", "e", "f", "a", "c", "t",
      "o", "r", "e", "d", "C", "o", "d", "e", DQ, ":", " ", DQ, "x", "=",
      "1", DQ, " ", "}", NL>>
\* Scenario D of the spec: a valid object followed by stray prose
ScenarioD ==
    <<"{", DQ, "c", "o", "d", "e", "I", "s", "s", "u", "e", "s", DQ, ":",
      "[", "]", ",", DQ, "s", "e", "c", "u", "r", "i", "t", "y", "V", "u",
      "l", "n", "e", "r", "a", "b", "i", "l", "i", "t", "y", "I", "s", "s",
      "u", "e", "s", DQ, ":", "[", "]", ",", DQ, "e", "n", "g", "i", "n",
      "e", "e", "r", "i", "n", "g", "P", "r", "a", "c", "t", "i", "c", "e",
      "s", "I", "s", "s", "u", "e", "s", DQ, ":", "[", "]", ",", DQ, "d",
      "o", "c", "u", "m", "e", "n", "t", "a", "t", "i", "o", "n", "I", "s",
      "s", "u", "e", "s", DQ, ":", "[", "]", ",", DQ, "r", "e", "v", "i",
      "e", "w", "S", "c", "o", "r", "e", DQ, ":", "8", "0", ",", DQ, "r",
      "e", "f", "a", "c", "t", "o", "r", "e", "d", "C", "o", "d", "e", DQ,
      ":", " ", DQ, "d", "e", "f", " ", "f", "(", ")", ":", BS, "n", " ",
      " ", " ", " ", "r", "e", "t", "u", "r", "n", " ", "1", DQ, "}", " ",
      "H", "o", "p", "e", " ", "t", "h", "i", "s", " ", "h", "e", "l", "p",
      "s", ".">>
\* a reply whose refactoredCode holds a literal newline and unescaped quotes
BrokenTail ==
    <<"{", DQ, "c", "o", "d", "e", "I", "s", "s", "u", "e", "s", DQ, ":",
      "[", "]", ",", DQ, "s", "e", "c", "u", "r", "i", "t", "y", "V", "u",
      "l", "n", "e", "r", "a", "b", "i", "l", "i", "t", "y", "I", "s", "s",
      "u", "e", "s", DQ, ":", "[", "]", ",", DQ, "e", "n", "g", "i", "n",
      "e", "e", "r", "i", "n", "g", "P", "r", "a", "c", "t", "i", "c", "e",
      "s", "I", "s", "s", "u", "e", "s", DQ, ":", "[", "]", ",", DQ, "d",
      "o", "c", "u", "m", "e", "n", "t", "a", "t", "i", "o", "n", "I", "s",
      "s", "u", "e", "s", DQ, ":", "[", "]", ",", DQ, "r", "e", "v", "i",
      "e", "w", "S", "c", "o", "r", "e", DQ, ":", "8", "0", ",", DQ, "r",
      "e", "f", "a", "c", "t", "o", "r", "e", "d", "C", "o", "d", "e", DQ,
      ":", DQ, "d", "e", "f", " ", "f", "(", ")", ":", NL, " ", " ", " ",
      " ", "r", "e", "t", "u", "r", "n", " ", DQ, "a", DQ, DQ, "}">>

\* d in a fenced code block, as a model writes it
Fenced(marker, d) == marker \o <<NL>> \o d \o <<NL>> \o Fence

\* the JSON documents of the replies
Documents == {Compact(v) : v \in Reviews} \cup {ScenarioASpaced}

\* JSON texts that hold no object
BraceFree ==
    {<<"4", "2">>, <<"[", "]">>, <<"n", "u", "l", "l">>, <<DQ, "o", "k", DQ>>}

\* what response.content may be
Contents ==
    Documents
    \cup {Fenced(FenceJson, d) : d \in Documents}
    \cup {Fenced(Fence, d) : d \in Documents}
    \cup BraceFree
    \cup {<<SP, NL>> \o Fenced(FenceJson, ScenarioA) \o <<NL, SP>>,
          <<SP>> \o ScenarioA \o <<NL>>,
          FenceJson \o <<NL>> \o ScenarioA,
          Fence \o ScenarioA,
          Fenced(FenceJson, ScenarioA) \o ProseAfter,
          Fence \o Fenced(FenceJson, ScenarioA) \o Fence,
          ProseBefore \o ScenarioA,
          ScenarioA \o ProseAfter,
          SubSeq(ScenarioA, 1, Len(ScenarioA) - 1),
          ScenarioC, ScenarioD, BrokenTail,
          <<>>, <<SP, NL>>, FenceJson \o Fence, Fence \o Fence, Fence}

\* what the arguments of a function call may be
Arguments == Documents \cup {ScenarioC, <<>>, <<"[", "]">>, BrokenTail}

\* the code a caller hands in
T_calculateSum ==
    <<"d", "e", "f", " ", "c", "a", "l", "c", "u", "l", "a", "t", "e", "_",
      "s", "u", "m", "(", "n", "u", "m", "b", "e", "r", "s", ")", ":", NL,
      " ", " ", " ", " ", "r", "e", "t", "u", "r", "n", " ", "s", "u", "m",
      "(", "n", "u", "m", "b", "e", "r", "s", ")">>
\* the user instructions of the example, lines 232-236
T_pleaseReview ==
    <<"P", "l", "e", "a", "s", "e", " ", "r", "e", "v", "i", "e", "w", " ",
      "t", "h", "i", "s", " ", "c", "o", "d", "e", " ", "f", "o", "r", " ",
      "p", "o", "t", "e", "n", "t", "i", "a", "l", " ", "i", "s", "s", "u",
      "e", "s">>
T_canYouExplain ==
    <<"C", "a", "n", " ", "y", "o", "u", " ", "e", "x", "p", "l", "a", "i",
      "n", " ", "h", "o", "w", " ", "t", "h", "i", "s", " ", "c", "o", "d",
      "e", " ", "w", "o", "r", "k", "s", "?">>

Codes == {T_xIs1, T_calculateSum}

\* the arguments <<code, user_instruction>> a caller hands to
\* analyze_code_auto
AnalyzeArguments ==
    {<<T_xIs1, T_pleaseReview>>, <<T_calculateSum, T_canYouExplain>>}

ContentReply(content) ==
    Reply("message", <<>>, PyDict(<<>>, <<>>), PyList(<<>>), TRUE, content)

FunctionCall(fname, arguments) ==
    PyDict(<<S_name, S_arguments>>, <<PyStr(fname), PyStr(arguments)>>)

FunctionCallReply(function_call, tool_calls) ==
    Reply("message", <<>>, PyDict(<<S_function_call>>, <<function_call>>),
          PyList(tool_calls), TRUE, PyStr(<<>>))

ToolCall(fname, args) == PyDict(<<S_name, S_args>>, <<PyStr(fname), args>>)

Explanation == PyDict(<<T_purpose>>, <<PyStr(T_adds)>>)

\* the tool calls a reply may carry: at most MaxToolCalls of them
MaxToolCalls == 2

ToolCallChoices ==
    {ToolCall(S_code_review, ReviewA), ToolCall(S_code_review, ReviewB(PyInt(3))),
     ToolCall(S_code_explanation, Explanation), ToolCall(T_other, Explanation)}

ToolCallLists ==
    UNION {[1..n -> ToolCallChoices] : n \in 1..MaxToolCalls}

FunctionNames == {S_code_review, S_code_explanation, T_other}

Replies ==
    {Reply("raise", T_timeout, PyDict(<<>>, <<>>), PyList(<<>>), FALSE, PyNone),
     Reply("none", <<>>, PyDict(<<>>, <<>>), PyList(<<>>), FALSE, PyNone),
     Reply("message", <<>>, PyDict(<<>>, <<>>), PyList(<<>>), FALSE, PyNone),
     ContentReply(PyNone),
     FunctionCallReply(PyNone, <<>>),
     FunctionCallReply(PyDict(<<>>, <<>>), <<>>),
     FunctionCallReply(PyDict(<<S_name>>, <<PyStr(S_code_review)>>), <<>>),
     FunctionCallReply(PyDict(<<S_arguments>>, <<PyStr(ScenarioA)>>), <<>>),
     FunctionCallReply(PyDict(<<S_name, S_arguments>>,
                              <<PyStr(S_code_review), ReviewA>>), <<>>),
     FunctionCallReply(FunctionCall(S_code_review, ScenarioA),
                       <<ToolCall(S_code_explanation, Explanation)>>)}
    \cup {ContentReply(PyStr(c)) : c \in Contents}
    \cup {FunctionCallReply(FunctionCall(f, a), <<>>) :
              f \in FunctionNames, a \in Arguments}
    \cup {FunctionCallReply(PyNone, t) : t \in ToolCallLists}

(***************************************************************************)
(* The state: the calls of the entry points.  A call is a coroutine that   *)
(* suspends once, at `await llm.ainvoke(messages)`; its arguments and      *)
(* locals are its own.  The modules keep no other state: logger and the    *)
(* API keys are set at import and only read.                               *)
(*   pc      "idle": not called; "awaiting": suspended at the await;       *)
(*           "done": finished                                              *)
(*   entry   the entry point called                                        *)
(*   code    the argument `code`                                           *)
(*   user_instruction  analyze_code_auto's argument of that name           *)
(*   messages the local `messages`, handed to the provider                 *)
(*   reply   what the await produced                                       *)
(*   content get_code_review's local `content` when the call ended (None   *)
(*           when it was never assigned)                                   *)
(*   outcome "returned": the call returned result to its caller;           *)
(*           "raised": an exception left the call                          *)
(*   result  the value returned                                            *)
(***************************************************************************)
VARIABLES pc, entry, code, user_instruction, messages, reply, content,
          outcome, result

vars ==
    <<pc, entry, code, user_instruction, messages, reply, content, outcome,
      result>>

Calls == DOMAIN pc

EntryPoints == {"review_code", "get_code_review", "analyze_code_auto"}

\* no call of the ids is under way
Idle(ids) ==
    /\ pc = [c \in ids |-> "idle"]
    /\ entry = [c \in ids |-> "none"]
    /\ code = [c \in ids |-> <<>>]
    /\ user_instruction = [c \in ids |-> <<>>]
    /\ messages = [c \in ids |-> PyNone]
    /\ reply = [c \in ids |-> NoReply]
    /\ content = [c \in ids |-> PyNone]
    /\ outcome = [c \in ids |-> "none"]
    /\ result = [c \in ids |-> PyNone]

Init == Idle({1})

\* the number of calls the caller keeps in flight at once (asyncio.gather)
NumCalls == 2

InitConcurrent == Idle(1..NumCalls)

\* the replies drawn when several calls are in flight
ConcurrentReplies ==
    {Reply("raise", T_timeout, PyDict(<<>>, <<>>), PyList(<<>>), FALSE, PyNone),
     ContentReply(PyStr(Fenced(FenceJson, ScenarioA))),
     FunctionCallReply(FunctionCall(S_code_review, ScenarioA), <<>>)}

\* what the await may produce
ReplyPool == IF Cardinality(Calls) > 1 THEN ConcurrentReplies ELSE Replies

\* the caller calls entry point e with the arguments k and u: the coroutine
\* builds its messages m and runs to its await
Call(c, e, k, u, m) ==
    /\ pc[c] = "idle"
    /\ pc' = [pc EXCEPT ![c] = "awaiting"]
    /\ entry' = [entry EXCEPT ![c] = e]
    /\ code' = [code EXCEPT ![c] = k]
    /\ user_instruction' = [user_instruction EXCEPT ![c] = u]
    /\ messages' = [messages EXCEPT ![c] = m]
    /\ UNCHANGED <<reply, content, outcome, result>>

\* Resume as it would be if the entry points kept the value they return in
\* a variable of the module, one for all calls
ResumeShared(c, r, out) ==
    /\ pc' = [pc EXCEPT ![c] = "done"]
    /\ reply' = [reply EXCEPT ![c] = r]
    /\ content' = [content EXCEPT ![c] = out.content]
    /\ outcome' = [outcome EXCEPT ![c] = IF out.kind = "return" THEN "returned"
                                         ELSE "raised"]
    /\ result' = [k \in Calls |-> out.val]
    /\ UNCHANGED <<entry, code, user_instruction, messages>>

\* the await produces r and the coroutine runs to its end, out
Resume(c, r, out) ==
    /\ pc' = [pc EXCEPT ![c] = "done"]
    /\ reply' = [reply EXCEPT ![c] = r]
    /\ content' = [content EXCEPT ![c] = out.content]
    /\ outcome' = [outcome EXCEPT ![c] = IF out.kind = "return" THEN "returned"
                                         ELSE "raised"]
    /\ result' = [result EXCEPT ![c] = out.val]
    /\ UNCHANGED <<entry, code, user_instruction, messages>>

ReviewCodeCall(c) ==
    \E k \in Codes : Call(c, "review_code", k, <<>>, ReviewCodeMessages(k))

ReviewCodeResume(c) ==
    /\ pc[c] = "awaiting"
    /\ entry[c] = "review_code"
    /\ \E r \in ReplyPool : Resume(c, r, review_code(r))

GetCodeReviewCall(c) ==
    \E k \in Codes : Call(c, "get_code_review", k, <<>>, GetCodeReviewMessages(k))

GetCodeReviewResume(c) ==
    /\ pc[c] = "awaiting"
    /\ entry[c] = "get_code_review"
    /\ \E r \in ReplyPool : Resume(c, r, get_code_review(r))

AnalyzeCodeAutoCall(c) ==
    \E a \in AnalyzeArguments :
        Call(c, "analyze_code_auto", a[1], a[2],
             AnalyzeCodeAutoMessages(a[1], a[2]))

AnalyzeCodeAutoResume(c) ==
    /\ pc[c] = "awaiting"
    /\ entry[c] = "analyze_code_auto"
    /\ \E r \in ReplyPool : Resume(c, r, analyze_code_auto(r))

\* the caller has consumed the result; the call's locals are gone
Finish(c) ==
    /\ pc[c] = "done"
    /\ pc' = [pc EXCEPT ![c] = "idle"]
    /\ entry' = [entry EXCEPT ![c] = "none"]
    /\ code' = [code EXCEPT ![c] = <<>>]
    /\ user_instruction' = [user_instruction EXCEPT ![c] = <<>>]
    /\ messages' = [messages EXCEPT ![c] = PyNone]
    /\ reply' = [reply EXCEPT ![c] = NoReply]
    /\ content' = [content EXCEPT ![c] = PyNone]
    /\ outcome' = [outcome EXCEPT ![c] = "none"]
    /\ result' = [result EXCEPT ![c] = PyNone]

Next ==
    \/ \E c \in Calls : ReviewCodeCall(c)
    \/ \E c \in Calls : ReviewCodeResume(c)
    \/ \E c \in Calls : GetCodeReviewCall(c)
    \/ \E c \in Calls : GetCodeReviewResume(c)
    \/ \E c \in Calls : AnalyzeCodeAutoCall(c)
    \/ \E c \in Calls : AnalyzeCodeAutoResume(c)
    \/ \E c \in Calls : Finish(c)

Spec == Init /\ [][Next]_vars

\* several calls in flight at once, interleaved at their awaits
SpecConcurrent == InitConcurrent /\ [][Next]_vars

(***************************************************************************)
(* What the claims speak of                                                *)
(***************************************************************************)
Done(c, e) == pc[c] = "done" /\ entry[c] = e

\* The result as a dict: get_code_review returns the dict itself,
\* review_code and analyze_code_auto return its JSON text.
ResultDict(c) ==
    IF entry[c] = "get_code_review" THEN result[c] ELSE Loads(result[c].s).val

Keys(d) == {d.ks[i] : i \in 1..Len(d.ks)}

IsSuccess(c) == HasKey(ResultDict(c), S_response) /\ ~HasKey(ResultDict(c), S_error)

IsFailure(c) == HasKey(ResultDict(c), S_error) /\ ~HasKey(ResultDict(c), S_response)

\* the reply's function_call, None when it has none
FunctionCallOf(r) == Get(r.additional_kwargs, S_function_call)

\* the function call fc has a name and arguments that are a JSON text
WellFormedCall(fc) ==
    /\ HasKey(fc, S_name)
    /\ HasKey(fc, S_arguments)
    /\ Lookup(fc, S_arguments).t = "str"
    /\ Loads(Lookup(fc, S_arguments).s).ok

\* the reply is a message that calls the function fname with JSON arguments
CallsFunction(r, fname) ==
    /\ r.kind = "message"
    /\ Truthy(FunctionCallOf(r))
    /\ WellFormedCall(FunctionCallOf(r))
    /\ Lookup(FunctionCallOf(r), S_name) = PyStr(fname)

\* the reply is a message whose content is a str
HasTextContent(r) == r.kind = "message" /\ r.hasContent /\ r.content.t = "str"

\* the reply is a message that calls code_review with arguments that are a
\* str
HasArguments(r) ==
    /\ r.kind = "message"
    /\ Truthy(FunctionCallOf(r))
    /\ Get(FunctionCallOf(r), S_name) = PyStr(S_code_review)
    /\ Get(FunctionCallOf(r), S_arguments).t = "str"

\* the call is an extraction from a text: the arguments of a code_review
\* call (StructuredCall, review_code) or the content of the reply (FreeText,
\* get_code_review)
Extracts(c) ==
    \/ Done(c, "review_code") /\ HasArguments(reply[c])
    \/ Done(c, "get_code_review") /\ HasTextContent(reply[c])

\* the text an extraction works on, exactly as the provider sent it
RawText(c) ==
    IF entry[c] = "review_code"
    THEN Lookup(FunctionCallOf(reply[c]), S_arguments).s
    ELSE reply[c].content.s

\* The JSON value the extraction works on: the text parsed, a fence around
\* it (FreeText) taken off first.
ParsedInput(c) ==
    IF entry[c] = "get_code_review" THEN Loads(StripFences(RawText(c)))
    ELSE Loads(RawText(c))

\* p occurs in s
Contains(s, p) ==
    \E i \in 1..(Len(s) - Len(p) + 1) : SubSeq(s, i, i + Len(p) - 1) = p

\* the outcomes of the provider call that are failures for review_code
ReviewCodeFailure(r) ==
    \/ r.kind # "message"
    \/ ~Truthy(FunctionCallOf(r))
    \/ ~WellFormedCall(FunctionCallOf(r))
    \/ Lookup(FunctionCallOf(r), S_name) # PyStr(S_code_review)

\* the outcomes of the provider call that are failures for get_code_review
GetCodeReviewFailure(r) ==
    \/ ~HasTextContent(r)
    \/ ~Loads(StripFences(r.content.s)).ok

\* the outcomes of the provider call that are failures for
\* analyze_code_auto whatever the name of the function called
AnalyzeFailure(r) ==
    \/ r.kind # "message"
    \/ Truthy(FunctionCallOf(r)) /\ ~WellFormedCall(FunctionCallOf(r))
    \/ ~Truthy(FunctionCallOf(r)) /\ ~Truthy(r.tool_calls)

\* the function call of the reply names a function analyze_code_auto did
\* not bind
UnexpectedName(r) ==
    /\ r.kind = "message"
    /\ Truthy(FunctionCallOf(r))
    /\ HasKey(FunctionCallOf(r), S_name)
    /\ Lookup(FunctionCallOf(r), S_name) \notin {PyStr(S_code_review),
                                                 PyStr(S_code_explanation)}

FailureFor(e, r) ==
    CASE e = "review_code" -> ReviewCodeFailure(r)
      [] e = "get_code_review" -> GetCodeReviewFailure(r)
      [] e = "analyze_code_auto" -> AnalyzeFailure(r)

\* C1 as stated: for every outcome of the provider call (an exception, a
\* reply with no function call, a function call with an unexpected name,
\* arguments or content that are not valid JSON, a reply with no content)
\* each entry point returns a result carrying an "error" field and no
\* exception escapes.
C1_EveryFailureIsAnError ==
    \A c \in Calls :
        pc[c] = "done" =>
            /\ outcome[c] = "returned"
            /\ (FailureFor(entry[c], reply[c]) \/
                (entry[c] = "analyze_code_auto" /\ UnexpectedName(reply[c])))
                   => HasKey(ResultDict(c), S_error)

\* C1 amended: no exception escapes an entry point, and every failed
\* outcome of the provider call is returned as a result with an "error"
\* field; but analyze_code_auto does not check the name of the function
\* called: a call of an unexpected name with JSON arguments is returned as
\* a success whose function_called is that name.
C1_FailuresAreData ==
    \A c \in Calls :
        pc[c] = "done" =>
            /\ outcome[c] = "returned"
            /\ FailureFor(entry[c], reply[c]) => IsFailure(c)
            /\ (entry[c] = "analyze_code_auto" /\ UnexpectedName(reply[c])
                /\ WellFormedCall(FunctionCallOf(reply[c])))
                   => /\ IsSuccess(c)
                      /\ Lookup(ResultDict(c), S_function_called)
                             = Lookup(FunctionCallOf(reply[c]), S_name)

\* review_code was resumed with a code_review call whose arguments are no
\* JSON: json.loads raised inside it, and it returned an error
C1_Witness ==
    \E c \in Calls :
        /\ Done(c, "review_code")
        /\ reply[c].kind = "message"
        /\ Get(FunctionCallOf(reply[c]), S_name) = PyStr(S_code_review)
        /\ Get(FunctionCallOf(reply[c]), S_arguments).t = "str"
        /\ ~WellFormedCall(FunctionCallOf(reply[c]))
        /\ outcome[c] = "returned"
        /\ IsFailure(c)

\* the three lists of issue records of the schema
IssueLists ==
    <<codeIssues, securityVulnerabilityIssues, engineeringPracticesIssues>>

\* v is an integer within the declared bound of criticalityLevel
LevelOk(v) == v.t = "int" /\ v.n >= MinCriticality /\ v.n <= MaxCriticality

\* some issue record of the review v has a criticalityLevel that is not an
\* integer within the bound
HasBadCriticality(v) ==
    /\ v.t = "dict"
    /\ \E i \in 1..Len(IssueLists) :
           /\ Get(v, IssueLists[i]).t = "list"
           /\ \E j \in 1..Len(Get(v, IssueLists[i]).vs) :
                  /\ HasKey(Get(v, IssueLists[i]).vs[j], criticalityLevel)
                  /\ ~LevelOk(Lookup(Get(v, IssueLists[i]).vs[j], criticalityLevel))

\* the "error" of the result, None when it has none
ErrorOf(c) == Get(ResultDict(c), S_error)

\* C2 as stated: an extraction (StructuredCall or FreeText) whose input
\* parses as a JSON object that lacks a required field returns a failure
\* whose error names that field, never a Success.
C2_MissingFieldIsSchemaViolation ==
    \A c \in Calls :
        (/\ Extracts(c)
         /\ ParsedInput(c).ok
         /\ ParsedInput(c).val.t = "dict"
         /\ MissingField(ParsedInput(c).val) # <<>>)
            => /\ IsFailure(c)
               /\ ErrorOf(c).t = "str"
               /\ Contains(ErrorOf(c).s, MissingField(ParsedInput(c).val))

\* C3 as stated: an extraction whose parsed input has an issue record with a
\* criticalityLevel that is not an integer in [0,5] returns a failure; the
\* value is not accepted into a Success.
C3_CriticalityOutOfRangeIsSchemaViolation ==
    \A c \in Calls :
        (/\ Extracts(c)
         /\ ParsedInput(c).ok
         /\ HasBadCriticality(ParsedInput(c).val))
            => IsFailure(c)

\* C4: when the arguments of a code_review call are a JSON document that
\* conforms to the schema, review_code returns the JSON text of a result
\* whose only key is "response" and whose "response" is the document: the
\* value the text denotes, which for a document written from a review v is v.
C4_StructuredRoundTrip ==
    \A c \in Calls :
        (/\ Done(c, "review_code")
         /\ HasArguments(reply[c])
         /\ ParsedInput(c).ok
         /\ ConformsToSchema(ParsedInput(c).val))
            => /\ outcome[c] = "returned"
               /\ result[c].t = "str"
               /\ Loads(result[c].s).ok
               /\ ResultDict(c).ks = <<S_response>>
               /\ Lookup(ResultDict(c), S_response) = ParsedInput(c).val
               /\ \A v \in Reviews :
                      RawText(c) = Compact(v) => Lookup(ResultDict(c), S_response) = v

\* review_code returned the review with issues of every category, a
\* fractional score and escapes in its refactored code
C4_Witness ==
    \E c \in Calls :
        /\ Done(c, "review_code")
        /\ HasArguments(reply[c])
        /\ RawText(c) = Compact(ReviewB(PyInt(3)))
        /\ ConformsToSchema(ParsedInput(c).val)
        /\ IsSuccess(c)
        /\ Lookup(ResultDict(c), S_response) = ReviewB(PyInt(3))

\* the keys of a result of review_code and get_code_review
WireKeys == {S_response, S_error, S_raw_response}

\* the result d has exactly one of "response" and "error", an "error" that
\* is a str, and "raw_response" only together with "error"
OneOfResponseOrError(d) ==
    /\ d.t = "dict"
    /\ HasKey(d, S_response) # HasKey(d, S_error)
    /\ HasKey(d, S_error) => Lookup(d, S_error).t = "str"
    /\ HasKey(d, S_raw_response) => HasKey(d, S_error)

\* C5 as stated: every result an entry point returns is a JSON object with
\* exactly one of "response" and "error" (a string), with "raw_response"
\* only together with "error", and with no other key.
C5_WireShape ==
    \A c \in Calls :
        (pc[c] = "done" /\ outcome[c] = "returned")
            => /\ OneOfResponseOrError(ResultDict(c))
               /\ Keys(ResultDict(c)) \subseteq WireKeys

\* C5 amended: every result has exactly one of "response" and "error" (a
\* string) and "raw_response" only together with "error".  The results of
\* review_code and get_code_review have no other key.  A result of
\* analyze_code_auto has no "raw_response" and carries, beside "response",
\* the keys "function_called", "parsing_required" and
\* "automatic_intent_detection", and beside "error" the keys
\* "automatic_intent_detection" and "parsing_failed".
C5_WireShapeWithMetadata ==
    \A c \in Calls :
        (pc[c] = "done" /\ outcome[c] = "returned")
            => /\ entry[c] # "get_code_review"
                   => result[c].t = "str" /\ Loads(result[c].s).ok
               /\ OneOfResponseOrError(ResultDict(c))
               /\ entry[c] # "analyze_code_auto"
                   => Keys(ResultDict(c)) \subseteq WireKeys
               /\ entry[c] = "analyze_code_auto"
                   => Keys(ResultDict(c)) =
                         IF HasKey(ResultDict(c), S_response)
                         THEN {S_response, S_function_called, S_parsing_required,
                               S_automatic_intent_detection}
                         ELSE {S_error, S_automatic_intent_detection,
                               S_parsing_failed}

\* analyze_code_auto returned a success with its metadata, from a function
\* call
C5_Witness ==
    \E c \in Calls :
        /\ Done(c, "analyze_code_auto")
        /\ outcome[c] = "returned"
        /\ Truthy(FunctionCallOf(reply[c]))
        /\ IsSuccess(c)
        /\ HasKey(ResultDict(c), S_function_called)

\* C6 as stated: a failure of an extraction carries the text of the reply
\* exactly as it was received, and a text that cannot be parsed is returned
\* as a failure, never as a Success or a result without an error.
C6_FailureCarriesRawText ==
    \A c \in Calls :
        Extracts(c) =>
            /\ IsFailure(c) => Get(ResultDict(c), S_raw_response) = PyStr(RawText(c))
            /\ ~ParsedInput(c).ok => IsFailure(c)

\* s.endswith(p)
EndsWith(s, p) ==
    /\ Len(s) >= Len(p)
    /\ \A i \in 1..Len(p) : s[Len(s) - Len(p) + i] = p[i]

\* the length of the fence marker the text t starts with, 0 when it starts
\* with none
MarkerLen(t) ==
    IF StartsWith(t, FenceJson) THEN Len(FenceJson)
    ELSE IF StartsWith(t, Fence) THEN Len(Fence)
    ELSE 0

\* t starts with a fence marker that no trailing fence closes
UnclosedFence(t) ==
    /\ MarkerLen(t) > 0
    /\ ~(Len(t) >= MarkerLen(t) + Len(Fence) /\ EndsWith(t, Fence))

\* C7 as stated, for the content s of a reply and the text get_code_review
\* hands to json.loads, surrounding whitespace not counted: a text that
\* starts with no fence marker is left unchanged; stripping the stripped
\* text again changes nothing; and when no trailing fence closes the leading
\* one, only the marker is removed.
C7_FenceStrippingIsIdempotent ==
    \A c \in Calls :
        (Done(c, "get_code_review") /\ HasTextContent(reply[c]))
            => /\ content[c].t = "str"
               /\ MarkerLen(Strip(RawText(c))) = 0
                   => content[c].s = Strip(RawText(c))
               /\ Strip(StripFences(content[c].s)) = Strip(content[c].s)
               /\ UnclosedFence(Strip(RawText(c)))
                   => content[c].s =
                          PySliceAbs(Strip(RawText(c)), MarkerLen(Strip(RawText(c))),
                                     Len(Strip(RawText(c))))

\* the content is the document d in a language-tagged or in a bare fence
IsFenced(s, d) == s \in {Fenced(FenceJson, d), Fenced(Fence, d)}

\* C8: for a document d that conforms to the schema, get_code_review of d
\* in a language-tagged fence or in a bare fence returns what it returns for
\* d without a fence: the result whose only key is "response" and whose
\* "response" is the document, which is also the result review_code writes
\* for d as the arguments of a code_review call.
C8_FencedAndUnfencedAgree ==
    \A c \in Calls :
        (Done(c, "get_code_review") /\ HasTextContent(reply[c]))
            => \A d \in Documents :
                   (IsFenced(RawText(c), d) /\ ConformsToSchema(Loads(d).val))
                       => /\ outcome[c] = "returned"
                          /\ result[c] = PyDict(<<S_response>>, <<Loads(d).val>>)
                          /\ result[c] = get_code_review(ContentReply(PyStr(d))).val
                          /\ result[c] =
                                 Loads(review_code(FunctionCallReply(
                                           FunctionCall(S_code_review, d), <<>>)).val.s).val

\* get_code_review returned the review with issues from a reply that wrote
\* it in a bare fence
C8_Witness ==
    \E c \in Calls :
        /\ Done(c, "get_code_review")
        /\ HasTextContent(reply[c])
        /\ RawText(c) = Fenced(Fence, Compact(ReviewB(PyInt(3))))
        /\ ConformsToSchema(Loads(Compact(ReviewB(PyInt(3)))).val)
        /\ IsSuccess(c)
        /\ Lookup(result[c], S_response) = ReviewB(PyInt(3))

\* the "error" get_code_review returns for the content t
ReasonFor(t) == Get(get_code_review(ContentReply(PyStr(t))).val, S_error)

\* the contents with a '{' whose candidate JSON is invalid (MalformedJson)
MalformedContents ==
    {t \in Contents : Contains(t, <<"{">>) /\ ~Loads(StripFences(t)).ok}

\* the contents of which nothing is left after fence stripping (EmptyPayload)
EmptyContents == {t \in Contents : StripFences(t) = <<>>}

\* C9 as stated: get_code_review of a content without any '{' (and not
\* empty after fence stripping) returns a failure, and its reason differs
\* from the reason returned for a malformed candidate and from the reason
\* returned for an empty payload.
C9_NoJsonFoundIsDistinct ==
    \A c \in Calls :
        (/\ Done(c, "get_code_review")
         /\ HasTextContent(reply[c])
         /\ ~Contains(RawText(c), <<"{">>)
         /\ StripFences(RawText(c)) # <<>>)
            => /\ IsFailure(c)
               /\ \A t \in MalformedContents \cup EmptyContents :
                      ReasonFor(t) # ErrorOf(c)

\* the refactored code of Scenario D of the spec, its newline a character
T_defReturn1 ==
    <<"d", "e", "f", " ", "f", "(", ")", ":", NL, " ", " ", " ", " ", "r",
      "e", "t", "u", "r", "n", " ", "1">>

\* Scenario A of the spec, with the refactored code given
ReviewWithCode(refactored) ==
    Review(<<>>, <<>>, <<>>, <<>>, PyInt(80), refactored)

\* the replies C10 speaks of, each with the review recovery is to return
RecoveryCases ==
    {<<ProseBefore \o ScenarioA, ReviewA>>,
     <<ScenarioA \o ProseAfter, ReviewA>>,
     <<ScenarioD, ReviewWithCode(T_defReturn1)>>,
     <<BrokenTail, ReviewWithCode(T_defF)>>}

\* C10 as stated: get_code_review of a schema-valid object preceded by
\* prose, followed by prose, or with a literal newline or double quote in
\* its refactoredCode returns a Success with the head fields parsed and the
\* refactoredCode preserved.
C10_RecoveryToleratesProseAndBrokenTail ==
    \A c \in Calls :
        (Done(c, "get_code_review") /\ HasTextContent(reply[c]))
            => \A k \in RecoveryCases :
                   RawText(c) = k[1]
                       => /\ IsSuccess(c)
                          /\ Lookup(result[c], S_response) = k[2]

\* entry point e run alone, from its await on, with the reply r
RunAlone(e, r) ==
    CASE e = "review_code" -> review_code(r)
      [] e = "get_code_review" -> get_code_review(r)
      [] e = "analyze_code_auto" -> analyze_code_auto(r)

\* the messages entry point e builds from the arguments k and u
MessagesOf(e, k, u) ==
    CASE e = "review_code" -> ReviewCodeMessages(k)
      [] e = "get_code_review" -> GetCodeReviewMessages(k)
      [] e = "analyze_code_auto" -> AnalyzeCodeAutoMessages(k, u)

\* C11: with several calls in flight, interleaved at their awaits, every
\* call holds what it would hold run alone: a call that is not under way
\* holds nothing; a call under way holds the messages built from its own
\* arguments; a call at its await holds no reply and no result; and a call
\* that is done holds the outcome, the result and the content that its
\* entry point computes from its own reply.
C11_CallsAreIndependent ==
    \A c \in Calls :
        /\ pc[c] = "idle"
            => /\ entry[c] = "none"
               /\ code[c] = <<>> /\ user_instruction[c] = <<>>
               /\ messages[c] = PyNone
        /\ pc[c] # "idle"
            => /\ entry[c] \in EntryPoints
               /\ messages[c] = MessagesOf(entry[c], code[c], user_instruction[c])
        /\ pc[c] # "done"
            => /\ reply[c] = NoReply
               /\ content[c] = PyNone
               /\ outcome[c] = "none"
               /\ result[c] = PyNone
        /\ pc[c] = "done"
            => LET alone == RunAlone(entry[c], reply[c])
               IN  /\ outcome[c] = (IF alone.kind = "return" THEN "returned"
                                    ELSE "raised")
                   /\ result[c] = alone.val
                   /\ content[c] = alone.content

\* two calls of one entry point, with different code and different replies,
\* are both done, with different results, while the caller still holds both
C11_Witness ==
    \E c, d \in Calls :
        /\ c # d
        /\ pc[c] = "done" /\ pc[d] = "done"
        /\ entry[c] = entry[d]
        /\ code[c] # code[d]
        /\ reply[c] # reply[d]
        /\ result[c] # result[d]
        /\ IsSuccess(c) /\ IsFailure(d)

\* the args of the last of the tool calls named fname, None when there is
\* none
LastArgs(tool_calls, fname) ==
    LET named == {i \in 1..Len(tool_calls) :
                      Get(tool_calls[i], S_name) = PyStr(fname)}
    IN  IF named = {} THEN PyNone
        ELSE Get(tool_calls[CHOOSE i \in named : \A j \in named : j <= i], S_args)

\* the result of the tool_calls branch for the tool calls given
BothResult(tool_calls) ==
    PyDict(<<S_response, S_function_called, S_parsing_required,
             S_automatic_intent_detection>>,
           <<PyDict(<<S_review, S_explanation>>,
                    <<LastArgs(tool_calls, S_code_review),
                      LastArgs(tool_calls, S_code_explanation)>>),
             PyStr(S_both), PyBool(FALSE), PyBool(TRUE)>>)

\* the result when the reply has neither a function call nor tool calls
NoValidAnalysisResult ==
    PyDict(<<S_error, S_automatic_intent_detection, S_parsing_failed>>,
           <<PyStr(S_NoValidAnalysis), PyBool(TRUE), PyBool(TRUE)>>)

\* analyze_code_auto was resumed with a message and has returned
Dispatched(c) ==
    /\ Done(c, "analyze_code_auto")
    /\ reply[c].kind = "message"
    /\ outcome[c] = "returned"

\* the tool_calls branch and the fallthrough, as C12 states them: without a
\* function call the result is built from the last tool call of each name,
\* with function_called "both"; without tool calls either it is the error
\* "No valid analysis result found"
WithoutFunctionCall(c) ==
    ~Truthy(FunctionCallOf(reply[c]))
        => ResultDict(c) = (IF Truthy(reply[c].tool_calls)
                            THEN BothResult(reply[c].tool_calls.vs)
                            ELSE NoValidAnalysisResult)

\* C12 as stated: in analyze_code_auto a non-empty function_call takes
\* precedence over tool_calls and its result reports function_called equal
\* to the name of the function called, whatever the name; otherwise the
\* tool calls decide, the last call of each name giving "review" and
\* "explanation" (null when there is none), with function_called "both";
\* with neither, the result is the error "No valid analysis result found".
C12_ReplyDispatch ==
    \A c \in Calls :
        Dispatched(c) =>
            /\ Truthy(FunctionCallOf(reply[c]))
                => /\ Get(ResultDict(c), S_function_called)
                          = Get(FunctionCallOf(reply[c]), S_name)
                   /\ Get(ResultDict(c), S_function_called) # PyNone
            /\ WithoutFunctionCall(c)

\* C12 amended: a non-empty function_call takes precedence over tool_calls,
\* which are then never examined.  When the function call has a name and
\* arguments that are a JSON text, the result is a success whose response
\* is the arguments parsed and whose function_called is the name, whatever
\* the name; otherwise the result is an error starting with "Error in code
\* analysis: " that reports no function_called.  The tool_calls branch and
\* the fallthrough are as stated.
C12_ReplyDispatchOnValidCalls ==
    \A c \in Calls :
        Dispatched(c) =>
            /\ Truthy(FunctionCallOf(reply[c]))
                => /\ result[c] =
                          analyze_code_auto([reply[c] EXCEPT
                                                !.tool_calls = PyList(<<>>)]).val
                   /\ IF WellFormedCall(FunctionCallOf(reply[c]))
                      THEN ResultDict(c) =
                               PyDict(<<S_response, S_function_called,
                                        S_parsing_required,
                                        S_automatic_intent_detection>>,
                                      <<Loads(Lookup(FunctionCallOf(reply[c]),
                                                     S_arguments).s).val,
                                        Lookup(FunctionCallOf(reply[c]), S_name),
                                        PyBool(FALSE), PyBool(TRUE)>>)
                      ELSE /\ IsFailure(c)
                           /\ StartsWith(ErrorOf(c).s, S_ErrorInAnalysis)
                           /\ ~HasKey(ResultDict(c), S_function_called)
            /\ WithoutFunctionCall(c)

\* analyze_code_auto returned the review of a code_review function call
\* from a reply that carried a tool call as well
C12_Witness ==
    \E c \in Calls :
        /\ Dispatched(c)
        /\ Truthy(FunctionCallOf(reply[c]))
        /\ Truthy(reply[c].tool_calls)
        /\ IsSuccess(c)
        /\ Lookup(ResultDict(c), S_function_called) = PyStr(S_code_review)
        /\ Lookup(ResultDict(c), S_response) = ReviewA

====
